---- MODULE Spec2Model ----
(***************************************************************************)
(* Model of the admin console client web/static/app.js of tg-zodiac:       *)
(* the HTTP helper (apiFetch), the global loading counter                  *)
(* (setGlobalLoading / apiAction), the page router (loadPage and the page  *)
(* loaders) and the form handlers.                                         *)
(*                                                                         *)
(* JavaScript runs one event-loop task at a time, so every action below is *)
(* one task: an operator event together with the synchronous code it runs  *)
(* up to the first await on the network, or the arrival of one response    *)
(* together with the continuation it resumes.                              *)
(***************************************************************************)
EXTENDS Naturals, Integers, Sequences, FiniteSets, TLC

VARIABLES
    content,        \* what #content shows (innerHTML), as a record
    calls,          \* the view loads (loadPage, list and detail loaders), in call order
    requests,       \* number of network requests issued by fetch()
    _loadingCount,  \* the reference count of setGlobalLoading
    display,        \* style.display of #global-loading
    ops,            \* the action handler invocations that reached the network
    form,           \* the open modal or inline form and its field values
    notice,         \* what the handler invoked in this step told the operator
    lastFetch,      \* the response and the outcome of the last apiFetch call
                    \* made on its own
    reply,          \* the apiFetch outcome the continuation run in this step
                    \* resumed with
    server,         \* the server's collection behind the displayed list
    modals,         \* how many elements with each modal id the document holds
    showingRegistered,  \* the users page's filter: let showingRegistered
    window          \* window._cqCounter and window._crCounter

routerVars == <<content, calls, requests>>

actionVars == <<_loadingCount, display, ops, form, notice>>

vars == <<content, calls, requests, _loadingCount, display, ops, form, notice,
          lastFetch, reply, server, modals, showingRegistered, window>>

(***************************************************************************)
(* Bounds                                                                  *)
(***************************************************************************)
MaxLoads == 1       \* loadPage calls after the initial one
MaxOps == 2         \* handler invocations that reach the network
MaxSubmits == 1     \* form submissions that reach the network
MaxFetches == 3     \* apiFetch calls made on their own
MaxMutations == 1   \* handler invocations of the mutation specification
MaxToggles == 2     \* toggle and delete requests on the quiz list
MaxOpens == 2       \* detail views opened from a list, and returns to it
MaxLen == 2         \* length of a title and of a search text, in characters
MaxModals == 2      \* modal openers that reach the network
MaxClicks == 1      \* clicks on the rows of a list that reach the network
MaxItems == 2       \* items in the reply a list is rendered from
MaxFilters == 2     \* clicks on the filter buttons of the users page
MaxBlocks == 3      \* question blocks added to one create form

(***************************************************************************)
(* apiFetch: the HTTP helper                                               *)
(***************************************************************************)
\* the fixed text of lines 76 and 104 (Russian for "request error")
API_FALLBACK == "Oshibka zaprosa"

\* What the transport can hand back for one fetch(): a network failure, or
\* a response with its ok flag, its status text and its body.  A body is
\* not JSON ("unparseable"), the JSON value null, or a JSON object whose
\* detail and message members are absent ("") or a text.
StatusTexts == {"", "Not Found", "Internal Server Error"}
Details == {"", "detail-text"}
Messages == {"", "message-text"}
\* quiz_date / raffle_date of a duplicate reply: absent ("") or the new key
NewKeys == {"", "new-key"}

\* the items of the list behind a list view, and what the server holds
\* for each of them; a list reply carries one such snapshot
ItemKeys == {"i1", "i2"}
ItemStates == {"enabled", "disabled", "absent"}
NoRows == [k \in ItemKeys |-> "unknown"]

Responses ==
    [net : {"fail"}, ok : {FALSE}, statusText : {""}, body : {"none"},
     detail : {""}, message : {""}, success : {FALSE}, key : {""},
     scheduled : {FALSE}]
    \cup
    [net : {"up"}, ok : BOOLEAN, statusText : StatusTexts,
     body : {"unparseable", "null"}, detail : {""}, message : {""},
     success : {FALSE}, key : {""}, scheduled : {FALSE}]
    \cup
    [net : {"up"}, ok : BOOLEAN, statusText : StatusTexts,
     body : {"object"}, detail : Details, message : Messages,
     success : BOOLEAN, key : NewKeys, scheduled : BOOLEAN]

\* the parsed JSON value: null, or an object with the members the client
\* reads (message, success, quiz_date / raffle_date, scheduled, the list)
JsonValue(resp) ==
    [kind |-> resp.body, message |-> resp.message, success |-> resp.success,
     key |-> resp.key, scheduled |-> resp.scheduled, rows |-> NoRows]
NoValue == [kind |-> "none", message |-> "", success |-> FALSE, key |-> "",
            scheduled |-> FALSE, rows |-> NoRows]
PlainObject == [kind |-> "object", message |-> "", success |-> FALSE,
                key |-> "", scheduled |-> FALSE, rows |-> NoRows]

Resolved(v) == [tag |-> "resolved", value |-> v, message |-> ""]
Rejected(m) == [tag |-> "rejected", value |-> NoValue, message |-> m]

\* response.json(): the parsed body, or a rejection with a SyntaxError
responseJson(resp) ==
    IF resp.body = "unparseable" THEN Rejected("SyntaxError")
    ELSE Resolved(JsonValue(resp))

\* new Error(error.detail) without the fixed text
errorText_raw(detail) == detail

\* error.detail || <fixed text> for the error object of a non-2xx reply
errorText(detail) == IF detail # "" THEN detail ELSE API_FALLBACK

\* no apiFetch call of that kind has been made
NoFetch ==
    [resp |-> [net |-> "none", ok |-> FALSE, statusText |-> "",
               body |-> "none", detail |-> "", message |-> "",
               success |-> FALSE, key |-> "", scheduled |-> FALSE],
     out |-> [tag |-> "none", value |-> NoValue, message |-> ""]]

\* the step resumed no continuation
NoReply == [tag |-> "none", value |-> NoValue, message |-> ""]

apiFetch(resp) ==
    IF resp.net = "fail" THEN Rejected("Failed to fetch")
    ELSE IF ~resp.ok
         THEN \* response.json().catch(() => ({ detail: response.statusText }))
              IF responseJson(resp).tag = "rejected"
              THEN Rejected(errorText(resp.statusText))
              ELSE IF resp.body = "null"
                   THEN Rejected("TypeError")      \* null.detail throws
                   ELSE Rejected(errorText(resp.detail))
         ELSE responseJson(resp)

(***************************************************************************)
(* The modal elements of the document                                      *)
(***************************************************************************)
\* the ids of the form modals, and of every modal the console inserts
ModalIds == {"editQuizMetaModal", "duplicateQuizModal",
             "editQuizQuestionModal", "addQuizQuestionModal",
             "editRaffleQuestionModal", "editRaffleMetaModal",
             "duplicateRaffleModal", "addRaffleQuestionModal"}
AllModalIds ==
    ModalIds \cup {"previewQuizModal", "previewRaffleModal", "ticketModal",
                   "userModal", "userTicketsModal"}

NoModals == [id \in AllModalIds |-> 0]

\* the question counters before a create form has been shown
NoWindow == [_cqCounter |-> 0, _crCounter |-> 0]

\* const existing = document.getElementById(id); if (existing)
\* existing.remove(); is written before every insertion but those of
\* showTicketInfo, viewUserDetails and viewUserTickets
removesExisting(id) ==
    id \notin {"ticketModal", "userModal", "userTicketsModal"}

\* document.body.insertAdjacentHTML('beforeend', modalHtml), after the
\* removal of the existing element where the opener has one
insertModal(id) ==
    [modals EXCEPT ![id] = IF removesExisting(id) THEN 1 ELSE @ + 1]

\* this.remove() in the hidden.bs.modal listener of one element
removeModal(id) ==
    IF id \in AllModalIds
    THEN [modals EXCEPT ![id] = IF @ > 0 THEN @ - 1 ELSE 0]
    ELSE modals

(***************************************************************************)
(* Router: loadPage, the page loaders and the detail loaders               *)
(***************************************************************************)
\* the cases of loadPage's switch
Pages == {"dashboard", "tickets", "users", "quiz", "raffle", "dice",
          "stats", "scheduler"}

\* the detail loaders showQuizDetails, showRaffleDetails, showDiceDetails
Details3 == {"quizDetail", "raffleDetail", "diceDetail"}

Views == Pages \cup Details3

\* the number of requests each loader fans out with Promise.all
FetchCount == [p \in Views |->
    CASE p = "dashboard"    -> 3
      [] p = "tickets"      -> 2
      [] p = "users"        -> 1
      [] p = "quiz"         -> 2
      [] p = "raffle"       -> 2
      [] p = "dice"         -> 1
      [] p = "stats"        -> 4
      [] p = "scheduler"    -> 2
      [] p = "quizDetail"   -> 3
      [] p = "raffleDetail" -> 4
      [] p = "diceDetail"   -> 1]

\* loadScheduler: apiFetch('/quiz/list').catch(() => ({ quizzes: [] }))
Swallowed(page, i) == page = "scheduler" /\ i = 2

\* the keys the operator (or a caller) passes to loadPage
NavKeys == {"dashboard", "dice", "scheduler", "no-such-page"}

Placeholder == [kind |-> "loading", page |-> "", msg |-> "", rows |-> NoRows]
NotFound == [kind |-> "notfound", page |-> "", msg |-> "", rows |-> NoRows]
\* a view rendered with the rows of its list
ListView(p, rows) == [kind |-> "page", page |-> p, msg |-> "", rows |-> rows]
Rendering(p) == ListView(p, NoRows)
ErrorBox(m) == [kind |-> "error", page |-> "", msg |-> m, rows |-> NoRows]
\* the error panel of showQuizDetails / showRaffleDetails: heading, the
\* back-to-list button and the alert
ErrorPanel(p, m) == [kind |-> "panel", page |-> p, msg |-> m, rows |-> NoRows]
\* an inline form written into #content (showCreateQuizForm, ...)
FormView(f) == [kind |-> "form", page |-> f, msg |-> "", rows |-> NoRows]

InlineIds == {"createQuizForm", "createRaffleForm", "createDiceForm",
              "editDiceForm"}
FormIds == ModalIds \cup InlineIds

\* A form: the dice id, the datetime-local value, the title and the blocks.
Fields(key, startsAt, title, blocks) ==
    [key |-> key, startsAt |-> startsAt, title |-> title, blocks |-> blocks]

NoFields == Fields("", "", "", <<>>)
NoForm == [id |-> "none", fields |-> NoFields]

NoNotice == [h |-> "none", msg |-> "", n |-> 0]
Notice(h, msg, n) == [h |-> h, msg |-> msg, n |-> n]

\* an inline form lives inside #content: overwriting #content removes it
FormAfter(shown, f) ==
    IF f.id \in InlineIds /\ shown # FormView(f.id) THEN NoForm ELSE f

\* no request of the load of a view has been answered
Unsent(page) ==
    IF page \in Views THEN [i \in 1..FetchCount[page] |-> NoRows] ELSE <<>>

\* A load is run through loadPage ("loadPage": placeholder first, the
\* catch of loadPage after), called directly by a handler ("bare": a list
\* loader has no catch of its own), or is a detail loader with its own
\* catch ("panel" for quiz and raffle, "toast" for dice).  credit is the
\* handler invocation that resumes when the load has finished (0: none).
\* key is the argument of a detail loader called by a handler: "source"
\* for the handler's own argument, else the key taken from the reply.
\* listed and flagged are the rows of the first and the second reply;
\* snaps holds, for each request the server has answered, the rows of the
\* reply under way.
NewLoad(page, mode, credit) ==
    [page |-> page, mode |-> mode, pc |-> "Loading",
     pending |-> 1..FetchCount[page], nullSeen |-> FALSE, err |-> "",
     credit |-> credit, listed |-> NoRows, flagged |-> NoRows,
     snaps |-> Unsent(page), key |-> ""]

NewCall(page) ==
    IF page \in Pages
    THEN NewLoad(page, "loadPage", 0)
    ELSE [page |-> page, mode |-> "loadPage", pc |-> "Rendered",
          pending |-> {}, nullSeen |-> FALSE, err |-> "", credit |-> 0,
          listed |-> NoRows, flagged |-> NoRows, snaps |-> <<>>,
          key |-> ""]

\* loadPage(page) up to the loader's await
loadPage(page) ==
    /\ Len(calls) < MaxLoads + 1
    /\ calls' = Append(calls, NewCall(page))
    /\ content' = IF page \in Pages THEN Placeholder ELSE NotFound
    /\ requests' = requests + (IF page \in Pages THEN FetchCount[page] ELSE 0)
    /\ form' = FormAfter(content', form)
    /\ notice' = NoNotice
    /\ reply' = NoReply
    /\ UNCHANGED <<_loadingCount, display, ops, lastFetch, server, modals,
                       showingRegistered, window>>

\* every way one apiFetch call can settle
Outcomes == {apiFetch(resp) : resp \in Responses}

\* The replies the page loaders are driven with: a transport failure, a
\* 2xx reply with an object or null body, a non-2xx reply with a detail.
LoaderResponses ==
    {r \in Responses :
        \/ r.net = "fail"
        \/ r.ok /\ r.body \in {"object", "null"} /\ r.statusText = ""
                /\ r.detail = "" /\ r.message = "" /\ ~r.success
                /\ r.key = "" /\ ~r.scheduled
        \/ ~r.ok /\ r.body = "object" /\ r.detail # ""
                 /\ r.statusText = "" /\ r.message = "" /\ ~r.success
                 /\ r.key = "" /\ ~r.scheduled}

LoaderOutcomes == {apiFetch(resp) : resp \in LoaderResponses}

\* The outcome of one fetch as the loader's Promise.all sees it.
LoaderOutcome(page, i, fetched) ==
    IF Swallowed(page, i) /\ fetched.tag = "rejected"
    THEN Resolved(PlainObject)
    ELSE fetched

\* a load whose rejection nobody observes: the call stays in Loading
loaderPc_hang(out, left, sawNull) ==
    IF out.tag = "rejected" \/ left # {} \/ sawNull THEN "Loading"
    ELSE "Rendered"

\* Promise.all rejects on the first rejection and resolves when every fetch
\* has resolved; the loader then renders, which throws a TypeError when a
\* body was the JSON value null.
loaderPc(out, left, sawNull) ==
    IF out.tag = "rejected" THEN "Errored"
    ELSE IF left # {} THEN "Loading"
    ELSE IF sawNull THEN "Errored"
    ELSE "Rendered"

\* loadPage without its catch block: a rejected loader leaves #content alone
loaderCatch_none(call, m, shown) == shown

\* what the catch that sees the loader's rejection writes into #content
loaderCatch(call, m, shown) ==
    CASE call.mode = "loadPage" -> ErrorBox(m)
      [] call.mode = "panel"    -> ErrorPanel(call.page, m)
      [] call.mode = "toast"    -> shown        \* toastError only
      [] call.mode = "bare"     -> shown        \* nobody renders the error

\* The rows a list loader renders.  loadQuiz and loadRaffle take the items
\* from the list reply and the badge from the disabled-dates reply
\* (disabledSet.has(date)); loadDice takes both from the list reply
\* (!item.enabled).
RowsOf(page, listed, flagged) ==
    IF page \in {"quiz", "raffle"}
    THEN [k \in ItemKeys |->
            IF listed[k] \in {"unknown", "absent"} THEN listed[k]
            ELSE IF flagged[k] = "disabled" THEN "disabled" ELSE "enabled"]
    ELSE IF page = "dice" THEN listed
    ELSE NoRows

\* The handler invocation k that awaited the load resumes: saveQuizQuestion
\* shows its success toast after showQuizDetails has returned.
resumeAfterLoad(k) ==
    IF k = 0 THEN ops
    ELSE [ops EXCEPT ![k].oks = @ + 1, ![k].pc = "done"]

\* One response of load c arrives.  Once Promise.all has rejected, the
\* replies still under way settle promises nobody reads: they are dropped
\* from pending with the rejection.
loaderSettle(c, i, fetched) ==
    LET call == calls[c]
        out == LoaderOutcome(call.page, i, fetched)
        left == call.pending \ {i}
        sawNull == call.nullSeen \/ (out.tag = "resolved" /\ out.value.kind = "null")
        pc2 == loaderPc(out, left, sawNull)
        m == IF out.tag = "rejected" THEN out.message ELSE "TypeError"
        listed2 == IF out.tag = "resolved" /\ i = 1 THEN out.value.rows
                   ELSE call.listed
        flagged2 == IF out.tag = "resolved" /\ i = 2 THEN out.value.rows
                    ELSE call.flagged
        shown == IF pc2 = "Loading" THEN content
                 ELSE IF pc2 = "Errored" THEN loaderCatch(call, m, content)
                 ELSE ListView(call.page, RowsOf(call.page, listed2, flagged2))
    IN  /\ call.pc = "Loading"
        /\ i \in call.pending
        /\ requests' = requests
        /\ content' = shown
        /\ form' = FormAfter(shown, form)
        /\ notice' = IF pc2 = "Errored" /\ call.mode = "toast"
                     THEN Notice("showDiceDetails", "toastError", 0)
                     ELSE NoNotice
        /\ reply' = fetched
        /\ UNCHANGED <<_loadingCount, display, lastFetch, server, modals,
                       showingRegistered, window>>
        /\ IF pc2 = "Loading"
           THEN /\ calls' = [calls EXCEPT ![c].pending = left,
                                          ![c].nullSeen = sawNull,
                                          ![c].listed = listed2,
                                          ![c].flagged = flagged2]
                /\ UNCHANGED ops
           ELSE IF pc2 = "Errored"
           THEN /\ calls' = [calls EXCEPT ![c].pending = {},
                                          ![c].nullSeen = FALSE,
                                          ![c].pc = "Errored",
                                          ![c].err = m,
                                          ![c].listed = NoRows,
                                          ![c].flagged = NoRows,
                                          ![c].snaps = Unsent(call.page)]
                /\ ops' = resumeAfterLoad(IF call.mode = "bare" THEN 0
                                          ELSE call.credit)
           ELSE /\ calls' = [calls EXCEPT ![c].pending = {},
                                          ![c].nullSeen = FALSE,
                                          ![c].pc = "Rendered",
                                          ![c].listed = NoRows,
                                          ![c].flagged = NoRows,
                                          ![c].snaps = Unsent(call.page)]
                /\ ops' = resumeAfterLoad(call.credit)

(***************************************************************************)
(* Forms: the field values the operator can enter                          *)
(***************************************************************************)
Spaces == "  "
Word == "a"
Texts == {"", Spaces, Word}
DateTimes == {"", "2025-02-01T10:00"}
Numbers == {"", "1"}
OptKeys == {"1", "2", "3", "4"}

\* String.prototype.trim on the texts above
trim(t) == IF t = Spaces THEN "" ELSE t

\* One question block: the raffle forms use qid, qtitle and text, the quiz
\* forms use qid (add form only), text, the four options and the select.
Question(qid, qtitle, text, opts, correct) ==
    [qid |-> qid, qtitle |-> qtitle, text |-> text, opts |-> opts,
     correct |-> correct]

\* which inputs a form has
HasKey(id) == id = "createDiceForm"
HasMeta(id) == id \in {"editQuizMetaModal", "duplicateQuizModal",
                       "editRaffleMetaModal", "duplicateRaffleModal",
                       "createQuizForm", "createRaffleForm",
                       "createDiceForm", "editDiceForm"}
HasBlock(id) == id \in {"editQuizQuestionModal", "addQuizQuestionModal",
                        "editRaffleQuestionModal", "addRaffleQuestionModal",
                        "createQuizForm", "createRaffleForm"}
IsQuizForm(id) == id \in {"editQuizQuestionModal", "addQuizQuestionModal",
                          "createQuizForm"}
HasQid(id) == id \in {"addQuizQuestionModal", "addRaffleQuestionModal",
                      "createRaffleForm"}

\* the option rows the operator is driven with: all filled, the first row
\* blank or whitespace, every row whitespace; the select offers every key
AllWord == [k \in OptKeys |-> Word]
OptionInputs ==
    {AllWord, [k \in OptKeys |-> Spaces],
     [AllWord EXCEPT !["1"] = ""], [AllWord EXCEPT !["1"] = Spaces]}
CorrectInputs == {"1", "2"}

NoOpts == [k \in OptKeys |-> ""]

BlockInputs(id) ==
    IF IsQuizForm(id)
    THEN {Question(qid, "", text, opts, correct) :
            qid \in (IF HasQid(id) THEN Numbers ELSE {""}),
            text \in Texts, opts \in OptionInputs, correct \in CorrectInputs}
    ELSE {Question(qid, qtitle, text, NoOpts, "1") :
            qid \in (IF HasQid(id) THEN Numbers ELSE {""}),
            qtitle \in Texts, text \in Texts}

\* everything the operator can have typed into form id
FieldInputs(id) ==
    {Fields(key, startsAt, title, blocks) :
        key \in (IF HasKey(id) THEN Texts ELSE {""}),
        startsAt \in (IF HasMeta(id) THEN DateTimes ELSE {""}),
        title \in (IF HasMeta(id) THEN Texts ELSE {""}),
        blocks \in (IF HasBlock(id) THEN {<<b>> : b \in BlockInputs(id)}
                    ELSE {<<>>})}


(***************************************************************************)
(* The action handlers                                                     *)
(***************************************************************************)
\* via: the helper the handler calls; form: the form it reads; check: its
\* local checks; successMessage: apiAction's own success toast; note: the
\* handler's success notification ("late": after the detail load it awaits);
\* usesResp: the success code reads a member of the response before doing
\* anything else than hiding the modal; hideFirst: the modal is hidden
\* before the response is read; after/mode: the view it loads on success;
\* onError: what its catch shows.
H(via, fm, check, sm, note, usesResp, hide, hideFirst, after, mode, onError) ==
    [via |-> via, form |-> fm, check |-> check, successMessage |-> sm,
     note |-> note, usesResp |-> usesResp, hide |-> hide,
     hideFirst |-> hideFirst, after |-> after, mode |-> mode,
     onError |-> onError]

HandlerNames ==
    {"rescheduleQuizJobs", "saveQuizMeta", "saveDuplicateQuiz",
     "submitCreateQuiz", "toggleQuizDate", "deleteQuiz", "saveQuizQuestion",
     "removeQuizQuestion", "saveAddQuizQuestion", "saveRaffleQuestion",
     "toggleRaffleDate", "rescheduleRaffleJobs", "saveRaffleMeta",
     "deleteRaffle", "saveDuplicateRaffle", "saveAddRaffleQuestion",
     "removeRaffleQuestion", "submitCreateRaffle", "runQuizAction",
     "createDice", "editDice", "toggleDice", "deleteDice",
     "approveAnswer", "denyAnswer", "removeTicket"}

Handlers == [h \in HandlerNames |->
    CASE h = "rescheduleQuizJobs" ->
           H("apiAction", "none", "none", FALSE, "toast", TRUE, FALSE, FALSE, "none", "none", "none")
      [] h = "saveQuizMeta" ->
           H("apiAction", "editQuizMetaModal", "validity", FALSE, "toast", TRUE, TRUE, FALSE, "quizDetail", "panel", "none")
      [] h = "saveDuplicateQuiz" ->
           H("apiAction", "duplicateQuizModal", "validity", FALSE, "toast", TRUE, TRUE, FALSE, "quizDetail", "panel", "none")
      [] h = "submitCreateQuiz" ->
           H("apiAction", "createQuizForm", "createQuiz", FALSE, "toast", TRUE, FALSE, FALSE, "quiz", "bare", "none")
      [] h = "toggleQuizDate" ->
           H("apiAction", "none", "none", FALSE, "toast", TRUE, FALSE, FALSE, "quiz", "bare", "none")
      [] h = "deleteQuiz" ->
           H("apiAction", "none", "confirm", FALSE, "toast", FALSE, FALSE, FALSE, "quiz", "bare", "none")
      [] h = "saveQuizQuestion" ->
           H("apiAction", "editQuizQuestionModal", "editQuiz", FALSE, "late", TRUE, TRUE, FALSE, "quizDetail", "panel", "toast")
      [] h = "removeQuizQuestion" ->
           H("apiAction", "none", "confirm", FALSE, "toast", TRUE, FALSE, FALSE, "quizDetail", "panel", "none")
      [] h = "saveAddQuizQuestion" ->
           H("apiAction", "addQuizQuestionModal", "validity", FALSE, "toast", TRUE, TRUE, TRUE, "quizDetail", "panel", "none")
      [] h = "saveRaffleQuestion" ->
           H("apiAction", "editRaffleQuestionModal", "validity", FALSE, "none", FALSE, TRUE, TRUE, "raffleDetail", "panel", "none")
      [] h = "toggleRaffleDate" ->
           H("apiAction", "none", "none", FALSE, "toast", TRUE, FALSE, FALSE, "raffle", "bare", "none")
      [] h = "rescheduleRaffleJobs" ->
           H("apiAction", "none", "none", FALSE, "toast", TRUE, FALSE, FALSE, "none", "none", "none")
      [] h = "saveRaffleMeta" ->
           H("apiAction", "editRaffleMetaModal", "validity", FALSE, "toast", TRUE, TRUE, FALSE, "raffleDetail", "panel", "none")
      [] h = "deleteRaffle" ->
           H("apiAction", "none", "confirm", FALSE, "toast", FALSE, FALSE, FALSE, "raffle", "bare", "none")
      [] h = "saveDuplicateRaffle" ->
           H("apiAction", "duplicateRaffleModal", "validity", FALSE, "toast", TRUE, TRUE, FALSE, "raffleDetail", "panel", "none")
      [] h = "saveAddRaffleQuestion" ->
           H("apiAction", "addRaffleQuestionModal", "validity", FALSE, "none", FALSE, TRUE, TRUE, "raffleDetail", "panel", "none")
      [] h = "removeRaffleQuestion" ->
           H("apiAction", "none", "confirm", FALSE, "toast", FALSE, FALSE, FALSE, "raffleDetail", "panel", "none")
      [] h = "submitCreateRaffle" ->
           H("apiAction", "createRaffleForm", "createRaffle", FALSE, "toast", TRUE, FALSE, FALSE, "raffleDetail", "panel", "none")
      [] h = "runQuizAction" ->
           H("apiAction", "none", "none", FALSE, "toast", FALSE, FALSE, FALSE, "none", "none", "none")
      [] h = "createDice" ->
           H("apiAction", "createDiceForm", "dice", TRUE, "none", FALSE, FALSE, FALSE, "dice", "bare", "none")
      [] h = "editDice" ->
           H("apiAction", "editDiceForm", "dice", TRUE, "none", FALSE, FALSE, FALSE, "diceDetail", "toast", "none")
      [] h = "toggleDice" ->
           H("apiAction", "none", "confirm", TRUE, "none", FALSE, FALSE, FALSE, "dice", "bare", "none")
      [] h = "deleteDice" ->
           H("apiAction", "none", "confirm", TRUE, "none", FALSE, FALSE, FALSE, "dice", "bare", "none")
      [] h = "approveAnswer" ->
           H("apiFetch", "none", "none", FALSE, "alert", FALSE, FALSE, FALSE, "dashboard", "loadPage", "alert")
      [] h = "denyAnswer" ->
           H("apiFetch", "none", "none", FALSE, "alert", FALSE, FALSE, FALSE, "dashboard", "loadPage", "alert")
      [] h = "removeTicket" ->
           H("apiFetch", "none", "confirm", FALSE, "alert", FALSE, FALSE, FALSE, "tickets", "loadPage", "alert")]

(***************************************************************************)
(* Local validation and the request body                                   *)
(***************************************************************************)
\* the required attribute: every required input of the form has a value
BlockFilled(id, b) ==
    /\ HasQid(id) => b.qid # ""
    /\ b.text # ""
    /\ IF IsQuizForm(id) THEN \A k \in OptKeys : b.opts[k] # ""
       ELSE b.qtitle # ""

\* form.checkValidity(), and the browser's own check before a submit event
checkValidity(id, f) ==
    /\ HasKey(id) => f.key # ""
    /\ HasMeta(id) => f.startsAt # "" /\ f.title # ""
    /\ \A i \in DOMAIN f.blocks : BlockFilled(id, f.blocks[i])

\* saveQuizQuestion: the options object keeps the rows with a trimmed value
KeptOptions(b) == {k \in OptKeys : trim(b.opts[k]) # ""}

\* the first question the validation loop of a create form rejects (0: none)
FirstBad(bad) ==
    IF bad = {} THEN 0 ELSE CHOOSE i \in bad : \A j \in bad : i <= j

QuizBlockBad(b) ==
    \/ trim(b.text) = ""
    \/ \E k \in OptKeys : trim(b.opts[k]) = ""
    \/ b.correct \notin OptKeys

RaffleBlockBad(b) == trim(b.qtitle) = "" \/ trim(b.text) = ""

\* The message a handler shows instead of calling the API ("" when it goes
\* on to the request), with the question number of the create forms.
Validate(h, f) ==
    LET id == Handlers[h].form
        kind == Handlers[h].check
    IN  IF kind \in {"none", "confirm"} THEN NoNotice
        ELSE IF ~checkValidity(id, f) THEN Notice(h, "reportValidity", 0)
        ELSE IF kind = "validity" THEN NoNotice
        ELSE IF kind = "editQuiz" THEN
            LET b == f.blocks[1]
            IN  IF trim(b.text) = "" THEN Notice(h, "alert: question text", 0)
                ELSE IF KeptOptions(b) = {} THEN Notice(h, "alert: one option", 0)
                ELSE IF b.correct \notin KeptOptions(b)
                     THEN Notice(h, "alert: correct answer", 0)
                ELSE NoNotice
        ELSE IF kind = "dice" THEN
            IF (HasKey(id) /\ trim(f.key) = "") \/ trim(f.title) = ""
               \/ f.startsAt = ""
            THEN Notice(h, "toast: fill all fields", 0) ELSE NoNotice
        ELSE \* the create forms
            IF f.startsAt = "" THEN Notice(h, "alert: date and time", 0)
            ELSE IF trim(f.title) = "" THEN Notice(h, "alert: title", 0)
            ELSE IF Len(f.blocks) < 1 THEN Notice(h, "alert: one question", 0)
            ELSE IF kind = "createQuiz" THEN
                LET i == FirstBad({j \in DOMAIN f.blocks :
                                       QuizBlockBad(f.blocks[j])})
                IN  IF i = 0 THEN NoNotice
                    ELSE Notice(h, "toast: question", i)
            ELSE
                LET i == FirstBad({j \in DOMAIN f.blocks :
                                       RaffleBlockBad(f.blocks[j])})
                IN  IF i = 0 THEN NoNotice
                    ELSE Notice(h, "toast: question", i)

\* the question as it is put into the request body
SentQuestion(h, b) ==
    [qid |-> b.qid, qtitle |-> trim(b.qtitle), text |-> trim(b.text),
     options |-> IF h = "saveQuizQuestion"
                 THEN [k \in KeptOptions(b) |-> trim(b.opts[k])]
                 ELSE IF IsQuizForm(Handlers[h].form)
                 THEN [k \in OptKeys |-> trim(b.opts[k])]
                 ELSE [k \in {} |-> ""],
     correct |-> IF IsQuizForm(Handlers[h].form) THEN b.correct ELSE ""]

NoBody == [key |-> "", startsAt |-> "", title |-> "", questions |-> <<>>]

\* JSON.stringify({...}) of the handler
Body(h, f) ==
    IF Handlers[h].form = "none" THEN NoBody
    ELSE [key |-> trim(f.key), startsAt |-> f.startsAt,
          title |-> trim(f.title),
          questions |-> [i \in DOMAIN f.blocks |-> SentQuestion(h, f.blocks[i])]]

(***************************************************************************)
(* setGlobalLoading and apiAction                                          *)
(***************************************************************************)
\* ensureUiScaffolding ran in the DOMContentLoaded handler and nothing
\* removes #global-loading
GlobalLoadingPresent == TRUE

\* a loader that keeps a flag instead of using the counter
setGlobalLoading_flag(isLoading) ==
    LET n == IF isLoading THEN _loadingCount + 1
             ELSE IF _loadingCount - 1 > 0 THEN _loadingCount - 1 ELSE 0
    IN  [count |-> n, display |-> IF isLoading THEN "flex" ELSE "none"]

\* the counter and the style.display after setGlobalLoading(isLoading)
setGlobalLoading(isLoading) ==
    IF ~GlobalLoadingPresent
    THEN [count |-> _loadingCount, display |-> display]
    ELSE LET n == IF isLoading THEN _loadingCount + 1
                  ELSE IF _loadingCount - 1 > 0 THEN _loadingCount - 1 ELSE 0
         IN  [count |-> n, display |-> IF n > 0 THEN "flex" ELSE "none"]

\* the rule of the page's stylesheet for #global-loading, which applies
\* until setGlobalLoading assigns the inline style
StylesheetDisplay == "none"

\* whether the blocking indicator is on screen
Displayed ==
    (IF display = "" THEN StylesheetDisplay ELSE display) # "none"

\* a console whose every request is a POST
Method_post(h) == "POST"

\* the method of the request a handler or an opener sends: the options it
\* passes to apiAction / apiFetch, GET when it passes none
Method(h) ==
    CASE h \in {"deleteQuiz", "deleteRaffle", "deleteDice",
                "removeQuizQuestion", "removeRaffleQuestion",
                "removeTicket"} -> "DELETE"
      [] h \in {"saveQuizMeta", "saveQuizQuestion", "saveRaffleMeta",
                "saveRaffleQuestion", "editDice"} -> "PUT"
      [] h \in HandlerNames -> "POST"
      [] OTHER -> "GET"

\* item is the list item the request is about ("": none), out the reply
\* the server has sent and that is still under way, toast the text of the
\* success toast the continuation showed
NewOp(h, item, body) ==
    [h |-> h, pc |-> "await", req |-> body, failed |-> FALSE,
     errs |-> 0, oks |-> 0, item |-> item, out |-> NoReply, toast |-> "",
     method |-> Method(h)]

(***************************************************************************)
(* Operator events on forms                                                *)
(***************************************************************************)
\* what a form shows when it opens: the edit forms are prefilled from the
\* fetched record, the duplicate forms with a default title, the create
\* forms start with one empty question block
DefaultFields(id) ==
    CASE id \in {"editQuizMetaModal", "editRaffleMetaModal", "editDiceForm"} ->
           Fields("", "2025-02-01T10:00", Word, <<>>)
      [] id \in {"duplicateQuizModal", "duplicateRaffleModal"} ->
           Fields("", "", Word, <<>>)
      [] id = "editQuizQuestionModal" ->
           Fields("", "", "", <<Question("", "", Word, AllWord, "1")>>)
      [] id = "editRaffleQuestionModal" ->
           Fields("", "", "", <<Question("", Word, Word, NoOpts, "1")>>)
      [] id \in {"addQuizQuestionModal", "addRaffleQuestionModal"} ->
           Fields("", "", "", <<Question("", "", "", NoOpts, "1")>>)
      [] id = "createQuizForm" ->
           Fields("", "", "", <<Question("", "", "", NoOpts, "1")>>)
      [] id = "createRaffleForm" ->
           Fields("", "", "", <<Question("1", "", "", NoOpts, "1")>>)
      [] id = "createDiceForm" -> NoFields

\* The form id is inserted: a modal is appended to the body, an inline
\* form replaces #content.  An open modal covers the page with its
\* backdrop, so no other form can be opened from under it.
openForm(id) ==
    /\ form.id \notin ModalIds
    /\ form' = [id |-> id, fields |-> DefaultFields(id)]
    /\ content' = IF id \in InlineIds THEN FormView(id) ELSE content
    /\ modals' = IF id \in ModalIds THEN insertModal(id) ELSE modals
    /\ UNCHANGED <<showingRegistered, window>>
    /\ notice' = NoNotice
    /\ reply' = NoReply
    /\ UNCHANGED <<calls, requests, _loadingCount, display, ops, lastFetch,
                   server>>

\* the operator edits the inputs of the open form
fillForm(f) ==
    /\ form.id # "none"
    /\ f # form.fields
    /\ form' = [form EXCEPT !.fields = f]
    /\ notice' = NoNotice
    /\ reply' = NoReply
    /\ UNCHANGED <<content, calls, requests, _loadingCount, display, ops,
                   lastFetch, server, modals,
                       showingRegistered, window>>

\* data-bs-dismiss: hidden.bs.modal removes the modal
dismiss ==
    /\ form.id \in ModalIds
    /\ form' = NoForm
    /\ modals' = removeModal(form.id)
    /\ UNCHANGED <<showingRegistered, window>>
    /\ notice' = NoNotice
    /\ reply' = NoReply
    /\ UNCHANGED <<content, calls, requests, _loadingCount, display, ops,
                   lastFetch, server>>

(***************************************************************************)
(* A handler up to its await, and its continuation                         *)
(***************************************************************************)
\* confirm() only in the handlers that go through apiAction
asksConfirm_viaAction(info) == info.check = "confirm" /\ info.via = "apiAction"

\* whether the handler starts with if (!confirm(...)) return
asksConfirm(info) == info.check = "confirm"

\* a handler that sends nothing while a request of the same action on the
\* same item is in flight
invokeOn_once(h, item, confirmed, limit) ==
    LET busy == \E k \in DOMAIN ops : /\ ops[k].h = h
                                      /\ ops[k].item = item
                                      /\ ops[k].pc = "await"
        asks == asksConfirm(Handlers[h])
    IN  /\ Len(ops) < limit
        /\ reply' = NoReply
        /\ UNCHANGED <<content, calls, form, lastFetch, server, modals,
                       _loadingCount, display, showingRegistered, window>>
        /\ IF busy \/ (asks /\ ~confirmed)
           THEN /\ notice' = Notice(h, IF busy THEN "ignored"
                                       ELSE "cancelled", 0)
                /\ UNCHANGED <<requests, ops>>
           ELSE /\ notice' = Notice(h, IF asks THEN "confirmed" ELSE "", 0)
                /\ requests' = requests + 1
                /\ ops' = Append(ops, NewOp(h, item, NoBody))

\* The operator triggers handler h on a list item (confirmed: the answer to
\* confirm()).
invokeOn(h, item, confirmed, limit) ==
    LET info == Handlers[h]
        verdict == Validate(h, form.fields)
        gl == IF info.via = "apiAction" THEN setGlobalLoading(TRUE)
              ELSE [count |-> _loadingCount, display |-> display]
    IN  /\ Len(ops) < limit
        /\ info.form # "none" => form.id = info.form
        /\ reply' = NoReply
        /\ UNCHANGED <<content, calls, form, lastFetch, server, modals,
                       showingRegistered, window>>
        /\ IF asksConfirm(info) /\ ~confirmed
           THEN /\ notice' = Notice(h, "cancelled", 0)
                /\ UNCHANGED <<requests, _loadingCount, display, ops>>
           ELSE IF verdict # NoNotice
           THEN /\ notice' = verdict
                /\ UNCHANGED <<requests, _loadingCount, display, ops>>
           ELSE /\ notice' = Notice(h, IF asksConfirm(info) THEN "confirmed"
                                       ELSE "", 0)
                /\ requests' = requests + 1
                /\ _loadingCount' = gl.count
                /\ display' = gl.display
                /\ ops' = Append(ops, NewOp(h, item, Body(h, form.fields)))

\* a handler that is not about a list item
invoke(h, confirmed, limit) == invokeOn(h, "", confirmed, limit)

\* apiAction whose finally is skipped when apiFetch rejects
finallyLoading_leak(viaAction, rejected) ==
    IF viaAction /\ ~rejected THEN setGlobalLoading(FALSE)
    ELSE [count |-> _loadingCount, display |-> display]

\* apiAction: finally { setGlobalLoading(false) }
finallyLoading(viaAction, rejected) ==
    IF viaAction THEN setGlobalLoading(FALSE)
    ELSE [count |-> _loadingCount, display |-> display]

\* a handler whose catch closes the modal
hidesModal_onError(info, rejected, proceeds, throws) ==
    info.hide /\ (rejected \/ proceeds \/ (throws /\ info.hideFirst))

\* whether the continuation reaches modal.hide()
hidesModal(info, rejected, proceeds, throws) ==
    ~rejected /\ info.hide /\ (proceeds \/ (throws /\ info.hideFirst))

\* a handler whose alert is not followed by the reload
reloads_skipAlert(info, proceeds) ==
    proceeds /\ info.after # "none" /\ info.note # "alert"

\* whether the continuation goes on to load a view
reloads(info, proceeds) == proceeds /\ info.after # "none"

\* the handlers that open the detail view of resp.quiz_date / raffle_date
KeyFromReply == {"saveDuplicateQuiz", "saveDuplicateRaffle",
                 "submitCreateRaffle"}

\* a duplicate that reopens the detail view it was started from
detailKey_source(h, v) ==
    IF Handlers[h].after \notin Details3 THEN "" ELSE "source"

\* the argument the handler passes to the detail loader
detailKey(h, v) ==
    IF Handlers[h].after \notin Details3 THEN ""
    ELSE IF h \in KeyFromReply THEN v.key
    ELSE "source"

\* the handlers whose toast is built from resp.scheduled, and those whose
\* text for scheduled = false says that the scheduler is not running
ReadsScheduled ==
    {"saveQuizMeta", "saveDuplicateQuiz", "submitCreateQuiz",
     "removeQuizQuestion", "saveAddQuizQuestion", "saveRaffleMeta",
     "saveDuplicateRaffle", "submitCreateRaffle"}
MetaHandlers == {"saveQuizMeta", "saveRaffleMeta"}

\* The text of the toast the continuation shows after the reply: it
\* mentions the scheduler update ("with-update"), says the scheduler is not
\* running ("not-running"), or neither ("plain").
successText(h, v) ==
    IF h \notin ReadsScheduled THEN "plain"
    ELSE IF v.scheduled THEN "with-update"
    ELSE IF h \in MetaHandlers THEN "not-running"
    ELSE "plain"

\* a handler that takes every 2xx reply for a success
refuses_never(h, v) == FALSE

\* saveQuizQuestion: if (response.success) { ... } else { toastError(...) }
refuses(h, v) == h = "saveQuizQuestion" /\ ~v.success

\* an apiAction that rethrows without telling the operator
actionErrors_silent(viaAction, rejected) == 0

\* apiAction: catch (e) { toastError(e.message || ...); throw e; }
actionErrors(viaAction, rejected) == IF rejected /\ viaAction THEN 1 ELSE 0

\* The response of invocation k arrives: the rest of apiAction (toast,
\* finally) and the rest of the handler run.
settle(k, fetched) ==
    LET op == ops[k]
        info == Handlers[op.h]
        viaAction == info.via = "apiAction"
        rejected == fetched.tag = "rejected"
        v == fetched.value
        \* reading a member of a null response throws inside the try
        throws == ~rejected /\ info.usesResp /\ v.kind = "null"
        refused == ~rejected /\ ~throws /\ refuses(op.h, v)
        proceeds == ~rejected /\ ~throws /\ ~refused
        gl == finallyLoading(viaAction, rejected)
        hides == hidesModal(info, rejected, proceeds, throws)
                     /\ form.id = info.form
        loads == reloads(info, proceeds)
        late == proceeds /\ info.note = "late"
        errsA == actionErrors(viaAction, rejected)
        errsH == IF ((rejected \/ throws) /\ info.onError # "none") \/ refused
                 THEN 1 ELSE 0
        oksA == IF ~rejected /\ info.successMessage THEN 1 ELSE 0
        oksH == IF proceeds /\ info.note \in {"toast", "alert"} THEN 1 ELSE 0
    IN  /\ op.pc = "await"
        /\ _loadingCount' = gl.count
        /\ display' = gl.display
        /\ ops' = [ops EXCEPT ![k] =
                      [h |-> op.h, pc |-> IF late THEN "loading" ELSE "done",
                       req |-> NoBody, failed |-> rejected,
                       errs |-> errsA + errsH, oks |-> oksA + oksH,
                       item |-> op.item, out |-> NoReply,
                       method |-> op.method,
                       toast |-> IF proceeds /\ info.note = "toast"
                                 THEN successText(op.h, v) ELSE ""]]
        /\ IF loads
           THEN /\ calls' = Append(calls,
                               [NewLoad(info.after, info.mode,
                                        IF late THEN k ELSE 0)
                                   EXCEPT !.key = detailKey(op.h, v)])
                /\ requests' = requests + FetchCount[info.after]
                /\ content' = IF info.mode = "loadPage" THEN Placeholder
                              ELSE content
           ELSE UNCHANGED <<calls, requests, content>>
        /\ form' = FormAfter(content', IF hides THEN NoForm ELSE form)
        /\ modals' = IF hides THEN removeModal(info.form) ELSE modals
        /\ UNCHANGED <<showingRegistered, window>>
        /\ notice' = NoNotice
        /\ reply' = fetched
        /\ UNCHANGED <<lastFetch, server>>

\* A caller awaits apiFetch(endpoint) and the transport answers with resp.
fetchOnce(resp) ==
    /\ requests < FetchCount["dashboard"] + MaxFetches
    /\ requests' = requests + 1
    /\ lastFetch' = [resp |-> resp, out |-> apiFetch(resp)]
    /\ notice' = NoNotice
    /\ reply' = NoReply
    /\ UNCHANGED <<content, calls, _loadingCount, display, ops, form, server,
                   modals, showingRegistered, window>>

(***************************************************************************)
(* Specifications                                                          *)
(***************************************************************************)
\* what the server holds when the console is opened
ServerInit == [k \in ItemKeys |-> "enabled"]

\* DOMContentLoaded: ensureUiScaffolding(), then loadPage('dashboard')
RouterInit ==
    /\ calls = <<NewCall("dashboard")>>
    /\ content = Placeholder
    /\ requests = FetchCount["dashboard"]
    /\ _loadingCount = 0
    /\ display = ""
    /\ ops = <<>>
    /\ form = NoForm
    /\ notice = NoNotice
    /\ lastFetch = NoFetch
    /\ reply = NoReply
    /\ modals = NoModals
    /\ showingRegistered = FALSE
    /\ window = NoWindow
    /\ server = ServerInit

Navigate == \E page \in NavKeys : loadPage(page)

Arrive == \E c \in DOMAIN calls : \E i \in calls[c].pending :
              \E fetched \in LoaderOutcomes : loaderSettle(c, i, fetched)

RouterNext == Navigate \/ Arrive

RouterSpec == RouterInit /\ [][RouterNext]_vars

\* every request eventually settles
RouterFairSpec == RouterSpec /\ WF_vars(Arrive)

\* The replies the mutation handlers are driven with: the loader replies
\* and the 2xx objects with and without success, new key and scheduled flag.
MutationResponses ==
    LoaderResponses \cup
    {r \in Responses : r.ok /\ r.body = "object" /\ r.statusText = ""
                       /\ r.detail = "" /\ r.message = ""}

MutationOutcomes == {apiFetch(resp) : resp \in MutationResponses}

\* The replies the handlers are driven with elsewhere: those without a new
\* key and without the scheduled flag.
ActionResponses ==
    {r \in MutationResponses : r.key = "" /\ ~r.scheduled}

ActionOutcomes == {apiFetch(resp) : resp \in ActionResponses}

\* the console after the initial dashboard load has rendered
ConsoleInit ==
    /\ calls = <<[NewCall("dashboard") EXCEPT !.pc = "Rendered",
                                              !.pending = {}]>>
    /\ content = Rendering("dashboard")
    /\ requests = FetchCount["dashboard"]
    /\ _loadingCount = 0
    /\ display = ""
    /\ ops = <<>>
    /\ form = NoForm
    /\ notice = NoNotice
    /\ lastFetch = NoFetch
    /\ reply = NoReply
    /\ modals = NoModals
    /\ showingRegistered = FALSE
    /\ window = NoWindow
    /\ server = ServerInit

Respond == \E k \in DOMAIN ops : \E fetched \in ActionOutcomes :
               settle(k, fetched)

\* the handlers the action specification is driven with: apiAction with
\* and without a follow-up load, and a handler that calls apiFetch directly
ActionKeys == {"rescheduleQuizJobs", "toggleDice", "removeTicket"}

Trigger == \E h \in ActionKeys : \E confirmed \in BOOLEAN :
               invoke(h, confirmed, MaxOps)

ActionNext == Trigger \/ Respond \/ Arrive

ActionSpec == ConsoleInit /\ [][ActionNext]_vars

\* Every form and every value the operator can type; the operator prepares
\* forms while a submission is still to be made, and types before the first
\* one: a later submission sends a form as it opened or as it was left
Preparing == Len(ops) < MaxSubmits
OpenAny == Preparing /\ \E id \in FormIds : openForm(id)
FillAny == ops = <<>> /\ \E f \in FieldInputs(form.id) : fillForm(f)
Dismiss == Preparing /\ dismiss
Submit == \E h \in HandlerNames : Handlers[h].form # "none"
              /\ invoke(h, TRUE, MaxSubmits)

FormNext == OpenAny \/ FillAny \/ Dismiss \/ Submit \/ Respond \/ Arrive

FormSpec == ConsoleInit /\ [][FormNext]_vars

\* a form filled in completely
ValidFields(id) ==
    Fields(IF HasKey(id) THEN Word ELSE "",
           IF HasMeta(id) THEN "2025-02-01T10:00" ELSE "",
           IF HasMeta(id) THEN Word ELSE "",
           IF HasBlock(id)
           THEN <<Question(IF HasQid(id) THEN "1" ELSE "",
                           IF IsQuizForm(id) THEN "" ELSE Word, Word,
                           IF IsQuizForm(id) THEN AllWord ELSE NoOpts, "1")>>
           ELSE <<>>)

\* the console with one of its forms open and filled in completely, or
\* with none
MutationInit ==
    /\ calls = <<[NewCall("dashboard") EXCEPT !.pc = "Rendered",
                                              !.pending = {}]>>
    /\ form \in {NoForm}
                \cup {[id |-> id, fields |-> ValidFields(id)] : id \in FormIds}
    /\ content = IF form.id \in InlineIds THEN FormView(form.id)
                 ELSE Rendering("dashboard")
    /\ requests = FetchCount["dashboard"]
    /\ _loadingCount = 0
    /\ display = ""
    /\ ops = <<>>
    /\ notice = NoNotice
    /\ lastFetch = NoFetch
    /\ reply = NoReply
    /\ modals = IF form.id \in ModalIds
                THEN [NoModals EXCEPT ![form.id] = 1]
                ELSE NoModals
    /\ showingRegistered = FALSE
    /\ window = NoWindow
    /\ server = ServerInit

\* Every handler of the console: the buttons of a view can be clicked while
\* no form covers or replaces the view, a form's handler while it is open.
Mutate == \E h \in HandlerNames : \E confirmed \in BOOLEAN :
              /\ Handlers[h].form = "none" => form.id = "none"
              /\ invoke(h, confirmed, MaxMutations)

Answer == \E k \in DOMAIN ops : \E fetched \in MutationOutcomes :
              settle(k, fetched)

MutationNext == Mutate \/ Answer \/ Arrive

MutationSpec == MutationInit /\ [][MutationNext]_vars

\* The quiz list on screen, as loadPage('quiz') rendered it from what the
\* server holds: a disabled and an enabled quiz.
ListInit ==
    /\ server = [k \in ItemKeys |->
                    IF k = "i1" THEN "disabled" ELSE "enabled"]
    /\ calls = <<[NewCall("dashboard") EXCEPT !.pc = "Rendered",
                                              !.pending = {}],
                 [NewCall("quiz") EXCEPT !.pc = "Rendered",
                                         !.pending = {}]>>
    /\ content = ListView("quiz", server)
    /\ requests = FetchCount["dashboard"] + FetchCount["quiz"]
    /\ _loadingCount = 0
    /\ display = ""
    /\ ops = <<>>
    /\ form = NoForm
    /\ notice = NoNotice
    /\ lastFetch = NoFetch
    /\ reply = NoReply
    /\ modals = NoModals
    /\ showingRegistered = FALSE
    /\ window = NoWindow
    /\ server = server

\* the server's reply to a request about an item it does not hold
Reply404 ==
    [net |-> "up", ok |-> FALSE, statusText |-> "Not Found",
     body |-> "object", detail |-> "detail-text", message |-> "",
     success |-> FALSE, key |-> "", scheduled |-> FALSE]

\* the server's reply to a toggle or delete it carried out
Reply200 ==
    [net |-> "up", ok |-> TRUE, statusText |-> "", body |-> "object",
     detail |-> "", message |-> "message-text", success |-> TRUE,
     key |-> "", scheduled |-> FALSE]

\* what the server holds after carrying out handler h's request on item
Carried(h, item) ==
    [server EXCEPT ![item] =
        IF h = "deleteQuiz" THEN "absent"
        ELSE IF @ = "enabled" THEN "disabled" ELSE "enabled"]

\* The operator clicks the toggle or the delete button of a row on screen.
Click == \E h \in {"toggleQuizDate", "deleteQuiz"} : \E item \in ItemKeys :
             \E confirmed \in BOOLEAN :
                 /\ content.kind = "page"
                 /\ content.page = "quiz"
                 /\ content.rows[item] \in {"enabled", "disabled"}
                 /\ invokeOn(h, item, confirmed, MaxToggles)

\* The server handles the request of invocation k and sends its reply.
ServeAction == \E k \in DOMAIN ops :
    LET op == ops[k]
        held == server[op.item] # "absent"
    IN  /\ op.pc = "await"
        /\ op.out = NoReply
        /\ server' = IF held THEN Carried(op.h, op.item) ELSE server
        /\ ops' = [ops EXCEPT ![k].out =
                      apiFetch(IF held THEN Reply200 ELSE Reply404)]
        /\ notice' = NoNotice
        /\ reply' = NoReply
        /\ UNCHANGED <<content, calls, requests, _loadingCount, display,
                       form, lastFetch, modals,
                       showingRegistered, window>>

\* The server answers request i of load c with what it holds.
ServeList == \E c \in DOMAIN calls : \E i \in calls[c].pending :
    /\ calls[c].pc = "Loading"
    /\ calls[c].snaps[i] = NoRows
    /\ calls' = [calls EXCEPT ![c].snaps[i] = server]
    /\ notice' = NoNotice
    /\ reply' = NoReply
    /\ UNCHANGED <<content, requests, _loadingCount, display, ops, form,
                   lastFetch, server, modals,
                       showingRegistered, window>>

\* the reply of invocation k arrives
ArriveAction == \E k \in DOMAIN ops :
    /\ ops[k].out # NoReply
    /\ settle(k, ops[k].out)

\* reply i of load c arrives
ArriveList == \E c \in DOMAIN calls : \E i \in calls[c].pending :
    /\ calls[c].snaps[i] # NoRows
    /\ loaderSettle(c, i, Resolved([PlainObject EXCEPT
                                       !.rows = calls[c].snaps[i]]))

ListNext == Click \/ ServeAction \/ ServeList \/ ArriveAction \/ ArriveList

ListSpec == ListInit /\ [][ListNext]_vars

\* the list pages, the detail view each opens and how its loader catches
Lists == {"quiz", "raffle", "dice"}
DetailOf(p) ==
    CASE p = "quiz" -> "quizDetail"
      [] p = "raffle" -> "raffleDetail"
      [] p = "dice" -> "diceDetail"
DetailMode(p) == IF p = "dice" THEN "toast" ELSE "panel"

\* one of the list pages on screen
ViewInit ==
    /\ \E p \in Lists :
          /\ calls = <<[NewCall("dashboard") EXCEPT !.pc = "Rendered",
                                                    !.pending = {}],
                       [NewCall(p) EXCEPT !.pc = "Rendered",
                                          !.pending = {}]>>
          /\ content = Rendering(p)
          /\ requests = FetchCount["dashboard"] + FetchCount[p]
    /\ _loadingCount = 0
    /\ display = ""
    /\ ops = <<>>
    /\ form = NoForm
    /\ notice = NoNotice
    /\ lastFetch = NoFetch
    /\ reply = NoReply
    /\ modals = NoModals
    /\ showingRegistered = FALSE
    /\ window = NoWindow
    /\ server = ServerInit

\* showQuizDetails / showRaffleDetails / showDiceDetails up to the await:
\* the requests go out, #content is left as it is
showDetails(p) ==
    /\ Len(calls) < MaxOpens + 2
    /\ calls' = Append(calls, NewLoad(DetailOf(p), DetailMode(p), 0))
    /\ requests' = requests + FetchCount[DetailOf(p)]
    /\ notice' = NoNotice
    /\ reply' = NoReply
    /\ UNCHANGED <<content, _loadingCount, display, ops, form, lastFetch,
                   server, modals,
                       showingRegistered, window>>

\* The operator clicks a row of the list on screen.
OpenDetails == \E p \in Lists :
    /\ content = Rendering(p)
    /\ showDetails(p)

\* the list page a panel or a detail view leads back to
ListOf(v) ==
    CASE v = "quizDetail" -> "quiz"
      [] v = "raffleDetail" -> "raffle"
      [] v = "diceDetail" -> "dice"

\* The back button of a detail view or of its error panel: onclick calls
\* the list loader directly.
BackToList == \E v \in Details3 :
    /\ content \in {Rendering(v)} \cup {ErrorPanel(v, m) : m \in {content.msg}}
    /\ Len(calls) < MaxOpens + 2
    /\ calls' = Append(calls, NewLoad(ListOf(v), "bare", 0))
    /\ requests' = requests + FetchCount[ListOf(v)]
    /\ notice' = NoNotice
    /\ reply' = NoReply
    /\ UNCHANGED <<content, _loadingCount, display, ops, form, lastFetch,
                   server, modals,
                       showingRegistered, window>>

ViewNext == OpenDetails \/ BackToList \/ Arrive

ViewSpec == ViewInit /\ [][ViewNext]_vars

(***************************************************************************)
(* Clicks on the rows of a list                                            *)
(***************************************************************************)
\* where in a row a click can land: on the link (or inside it), on one of
\* the two buttons, or on the row outside both
RowTargets == {"link", "toggle", "delete", "row"}

\* the onclick attribute of the element clicked
InlineHandler(p, target) ==
    CASE target = "toggle" ->
           (CASE p = "quiz" -> "toggleQuizDate"
              [] p = "raffle" -> "toggleRaffleDate"
              [] p = "dice" -> "toggleDice")
      [] target = "delete" ->
           (CASE p = "quiz" -> "deleteQuiz"
              [] p = "raffle" -> "deleteRaffle"
              [] p = "dice" -> "deleteDice")
      [] OTHER -> "none"

DetailLoader(p) ==
    CASE p = "quiz" -> "showQuizDetails"
      [] p = "raffle" -> "showRaffleDetails"
      [] p = "dice" -> "showDiceDetails"

\* onclick="event.stopPropagation(); ..."
stopsPropagation(target) == InlineHandler("quiz", target) # "none"

\* e.target.closest('.quiz-date-link'): the link, from the link or from
\* inside it; the buttons sit in a sibling <div>
closestLink(target) == target = "link"

\* a list whose listener opens the detail view on any click in a row
opensDetail_anyClick(target) == TRUE

\* whether the click reaches the list's listener and finds the link
opensDetail(target) == ~stopsPropagation(target) /\ closestLink(target)

\* One click on the row of item in list p: the inline handler of the
\* element clicked runs first, then the listener of the list if the event
\* reaches it.
rowClick(p, item, target, confirmed) ==
    LET h == InlineHandler(p, target)
        sends == h # "none" /\ (asksConfirm(Handlers[h]) => confirmed)
        nav == opensDetail(target)
        gl == IF sends /\ Handlers[h].via = "apiAction"
              THEN setGlobalLoading(TRUE)
              ELSE [count |-> _loadingCount, display |-> display]
    IN  /\ Len(ops) < MaxClicks
        /\ Len(calls) < MaxClicks + 2
        /\ ops' = IF sends THEN Append(ops, NewOp(h, item, NoBody)) ELSE ops
        /\ calls' = IF nav
                    THEN Append(calls, NewLoad(DetailOf(p), DetailMode(p), 0))
                    ELSE calls
        /\ requests' = requests + (IF sends THEN 1 ELSE 0)
                                + (IF nav THEN FetchCount[DetailOf(p)] ELSE 0)
        /\ _loadingCount' = gl.count
        /\ display' = gl.display
        /\ notice' =
              IF h # "none"
              THEN Notice(h, IF ~asksConfirm(Handlers[h]) THEN ""
                             ELSE IF confirmed THEN "confirmed"
                             ELSE "cancelled", 0)
              ELSE IF nav THEN Notice(DetailLoader(p), "link", 0)
              ELSE NoNotice
        /\ reply' = NoReply
        /\ UNCHANGED <<content, form, lastFetch, server, modals,
                       showingRegistered, window>>

\* one of the lists on screen with its rows
RowInit ==
    /\ \E p \in Lists :
          /\ calls = <<[NewCall("dashboard") EXCEPT !.pc = "Rendered",
                                                    !.pending = {}],
                       [NewCall(p) EXCEPT !.pc = "Rendered",
                                          !.pending = {}]>>
          /\ content = ListView(p, ServerInit)
          /\ requests = FetchCount["dashboard"] + FetchCount[p]
    /\ _loadingCount = 0
    /\ display = ""
    /\ ops = <<>>
    /\ form = NoForm
    /\ notice = NoNotice
    /\ lastFetch = NoFetch
    /\ reply = NoReply
    /\ modals = NoModals
    /\ showingRegistered = FALSE
    /\ window = NoWindow
    /\ server = ServerInit

ClickRow == \E p \in Lists : \E item \in ItemKeys : \E target \in RowTargets :
                \E confirmed \in BOOLEAN :
                    /\ content.kind = "page"
                    /\ content.page = p
                    /\ content.rows[item] \in {"enabled", "disabled"}
                    /\ rowClick(p, item, target, confirmed)

RowNext == ClickRow \/ Respond \/ Arrive

RowSpec == RowInit /\ [][RowNext]_vars

(***************************************************************************)
(* The rows of a list as they are written                                  *)
(***************************************************************************)
\* an item of /quiz/list, /raffle/list or /dice/list: its date or id, and
\* the enabled member the dice items carry
ListItems == [key : ItemKeys, enabled : BOOLEAN]

\* the arrays the list replies can hold, in order and with repetitions
ItemLists == UNION {[1..n -> ListItems] : n \in 0..MaxItems}

\* a list that reads the enabled member on every page
isDisabled_flag(p, item, disabledSet) == ~item.enabled

\* const isDisabled = disabledSet.has(date) / !item.enabled
isDisabled(p, item, disabledSet) ==
    IF p = "dice" THEN ~item.enabled ELSE item.key \in disabledSet

\* the row written for one item: the badge inside the link and the text of
\* the toggle button
RowFor(p, item, disabledSet) ==
    [key |-> item.key,
     badge |-> isDisabled(p, item, disabledSet),
     control |-> IF isDisabled(p, item, disabledSet) THEN "Enable"
                 ELSE "Disable"]

\* (list || []).map(item => ...).join('')
renderRows(p, items, disabledSet) ==
    [i \in 1..Len(items) |-> RowFor(p, items[i], disabledSet)]

\* what the Promise.all of a list loader resolved with
Listing(p, items, disabledSet) ==
    [tag |-> "resolved",
     value |-> [page |-> p, items |-> items, disabled |-> disabledSet],
     message |-> ""]

\* a list loader whose requests have resolved and that has yet to render
RenderInit ==
    /\ \E p \in Lists : \E items \in ItemLists :
          \E disabledSet \in SUBSET ItemKeys :
              /\ reply = Listing(p, items, disabledSet)
              /\ calls = <<[NewCall("dashboard") EXCEPT !.pc = "Rendered",
                                                        !.pending = {}],
                           [NewLoad(p, "bare", 0) EXCEPT !.pending = {}]>>
              /\ requests = FetchCount["dashboard"] + FetchCount[p]
    /\ content = Rendering("dashboard")
    /\ _loadingCount = 0
    /\ display = ""
    /\ ops = <<>>
    /\ form = NoForm
    /\ notice = NoNotice
    /\ lastFetch = NoFetch
    /\ modals = NoModals
    /\ showingRegistered = FALSE
    /\ window = NoWindow
    /\ server = ServerInit

\* content.innerHTML = `...`: the loader writes the list, the rows here in
\* the order and with the parts they are written with
RenderList ==
    LET v == reply.value
    IN  /\ calls[2].pc = "Loading"
        /\ content' = ListView(v.page,
                                renderRows(v.page, v.items, v.disabled))
        /\ calls' = [calls EXCEPT ![2].pc = "Rendered"]
        /\ notice' = NoNotice
        /\ UNCHANGED <<requests, _loadingCount, display, ops, form, lastFetch,
                       reply, server, modals,
                       showingRegistered, window>>

RenderNext == RenderList

RenderSpec == RenderInit /\ [][RenderNext]_vars

(***************************************************************************)
(* The users page                                                          *)
(***************************************************************************)
\* const endpoint = showingRegistered ? `/users/registered?...` : `/users/?...`
endpointOf(registered) ==
    IF registered THEN "/users/registered" ELSE "/users/"

\* the filter the template reads when it renders: the global as it is then
filterAtRender(from) == showingRegistered

\* the users table: the endpoint its rows came from, the '(only registered)'
\* label, the filter button drawn btn-primary and the registered column
UsersView(from, registered) ==
    [kind |-> "page", page |-> "users", msg |-> "",
     rows |-> [from |-> from,
               label |-> registered,
               highlighted |-> IF registered THEN "registered" ELSE "all",
               registeredColumn |-> ~registered]]

\* loadUsers(page) up to its await, called from an onclick attribute
loadUsers(registered) ==
    /\ Len(calls) < MaxFilters + 2
    /\ showingRegistered' = registered
    /\ calls' = Append(calls, [NewLoad("users", "bare", 0) EXCEPT
                                  !.key = endpointOf(registered)])
    /\ requests' = requests + 1
    /\ notice' = NoNotice
    /\ reply' = NoReply
    /\ UNCHANGED <<content, _loadingCount, display, ops, form, lastFetch,
                   server, modals, window>>

\* The reply of load c arrives: loadUsers renders the table, or its
\* rejection (or the TypeError of users.total on null) goes unhandled.
usersSettle(c, fetched) ==
    LET call == calls[c]
        renders == fetched.tag = "resolved" /\ fetched.value.kind = "object"
        m == IF fetched.tag = "rejected" THEN fetched.message ELSE "TypeError"
    IN  /\ call.pc = "Loading"
        /\ call.page = "users"
        /\ content' = IF renders
                      THEN UsersView(call.key, filterAtRender(call.key))
                      ELSE content
        /\ calls' = [calls EXCEPT
                        ![c].pc = IF renders THEN "Rendered" ELSE "Errored",
                        ![c].pending = {},
                        ![c].err = IF renders THEN "" ELSE m]
        /\ notice' = NoNotice
        /\ reply' = fetched
        /\ UNCHANGED <<requests, _loadingCount, display, ops, form, lastFetch,
                       server, modals, showingRegistered, window>>

\* the users page on screen, all users listed
UsersInit ==
    /\ calls = <<[NewCall("users") EXCEPT !.pc = "Rendered", !.pending = {},
                                          !.key = endpointOf(FALSE)]>>
    /\ content = UsersView(endpointOf(FALSE), FALSE)
    /\ requests = 1
    /\ _loadingCount = 0
    /\ display = ""
    /\ ops = <<>>
    /\ form = NoForm
    /\ notice = NoNotice
    /\ lastFetch = NoFetch
    /\ reply = NoReply
    /\ modals = NoModals
    /\ showingRegistered = FALSE
    /\ window = NoWindow
    /\ server = ServerInit

\* onclick="showingRegistered=false; loadUsers(0);" and its counterpart;
\* a pagination link calls loadUsers with the filter as it is
SetFilter == \E registered \in BOOLEAN : loadUsers(registered)

ArriveUsers == \E c \in DOMAIN calls : \E fetched \in LoaderOutcomes :
                   usersSettle(c, fetched)

UsersNext == SetFilter \/ ArriveUsers

UsersSpec == UsersInit /\ [][UsersNext]_vars

(***************************************************************************)
(* The question blocks of the create forms                                 *)
(***************************************************************************)
CreateForms == {"createQuizForm", "createRaffleForm"}

counterOf(fid) ==
    IF fid = "createQuizForm" THEN "_cqCounter" ELSE "_crCounter"
ShowOf(fid) ==
    IF fid = "createQuizForm" THEN "showCreateQuizForm"
    ELSE "showCreateRaffleForm"
SubmitOf(fid) ==
    IF fid = "createQuizForm" THEN "submitCreateQuiz"
    ELSE "submitCreateRaffle"

\* a question block: data-cq-id / data-cr-id, which is also the number of
\* its header, and its inputs
Block(id, q) ==
    [id |-> id, qid |-> q.qid, qtitle |-> q.qtitle, text |-> q.text,
     opts |-> q.opts, correct |-> q.correct]

\* the inputs of a block as it is added, and after the operator has filled
\* it in with the question text given
EmptyQuestion(fid) ==
    IF fid = "createQuizForm" THEN Question("", "", "", NoOpts, "1")
    ELSE Question("1", "", "", NoOpts, "1")
TypedQuestion(fid, text) ==
    IF fid = "createQuizForm" THEN Question("", "", text, AllWord, "1")
    ELSE Question("1", Word, text, NoOpts, "1")

\* a form that numbers a new block by the blocks it holds
nextId_count(counter, blocks) == Len(blocks) + 1

\* const id = (++window._cqCounter)
nextId(counter, blocks) == counter + 1

\* container.querySelector(`[data-cq-id="${id}"]`).remove()
removeBlock(blocks, id) ==
    LET at == {i \in DOMAIN blocks : blocks[i].id = id}
        first == CHOOSE i \in at : \A j \in at : i <= j
    IN  IF at = {} THEN blocks
        ELSE SubSeq(blocks, 1, first - 1)
                 \o SubSeq(blocks, first + 1, Len(blocks))

\* showCreateQuizForm / showCreateRaffleForm: the form replaces #content,
\* the counter restarts and the first block is added
showCreateForm(fid) ==
    LET id == nextId(0, <<>>)
    IN  /\ form.id \notin ModalIds
        /\ content' = FormView(fid)
        /\ window' = [window EXCEPT ![counterOf(fid)] = id]
        /\ form' = [id |-> fid,
                    fields |-> Fields("", "", "",
                                      <<Block(id, EmptyQuestion(fid))>>)]
        /\ notice' = Notice(ShowOf(fid), "", 0)
        /\ reply' = NoReply
        /\ UNCHANGED <<calls, requests, _loadingCount, display, ops,
                       lastFetch, server, modals, showingRegistered>>

\* addCreateQuizQuestion / addCreateRaffleQuestion
addCreateQuestion(fid) ==
    LET blocks == form.fields.blocks
        id == nextId(window[counterOf(fid)], blocks)
    IN  /\ form.id = fid
        /\ window[counterOf(fid)] < MaxBlocks
        /\ window' = [window EXCEPT ![counterOf(fid)] = id]
        /\ form' = [form EXCEPT !.fields.blocks =
                        Append(blocks, Block(id, EmptyQuestion(fid)))]
        /\ notice' = NoNotice
        /\ reply' = NoReply
        /\ UNCHANGED <<content, calls, requests, _loadingCount, display, ops,
                       lastFetch, server, modals, showingRegistered>>

\* removeCreateQuizQuestion(id) / removeCreateRaffleQuestion(id)
removeCreateQuestion(fid, id) ==
    LET blocks == form.fields.blocks
    IN  /\ form.id = fid
        /\ IF Len(blocks) <= 1
           THEN /\ notice' = Notice("removeCreateQuestion",
                                    "alert: one question", 0)
                /\ UNCHANGED form
           ELSE /\ notice' = NoNotice
                /\ form' = [form EXCEPT !.fields.blocks =
                                removeBlock(blocks, id)]
        /\ reply' = NoReply
        /\ UNCHANGED <<content, calls, requests, _loadingCount, display, ops,
                       lastFetch, server, modals, showingRegistered, window>>

\* the operator fills in block i
typeQuestion(fid, i, text) ==
    LET blocks == form.fields.blocks
        typed == Block(blocks[i].id, TypedQuestion(fid, text))
    IN  /\ form.id = fid
        /\ blocks[i] # typed
        /\ form' = [form EXCEPT !.fields.blocks[i] = typed]
        /\ notice' = NoNotice
        /\ reply' = NoReply
        /\ UNCHANGED <<content, calls, requests, _loadingCount, display, ops,
                       lastFetch, server, modals, showingRegistered, window>>

\* the operator fills in the date and the title
typeMeta(fid) ==
    /\ form.id = fid
    /\ form.fields.startsAt = ""
    /\ form' = [form EXCEPT !.fields.startsAt = "2025-02-01T10:00",
                            !.fields.title = Word]
    /\ notice' = NoNotice
    /\ reply' = NoReply
    /\ UNCHANGED <<content, calls, requests, _loadingCount, display, ops,
                   lastFetch, server, modals, showingRegistered, window>>

ShowCreate == \E fid \in CreateForms : showCreateForm(fid)

AddQuestion == \E fid \in CreateForms : addCreateQuestion(fid)

\* _ensureCreateQuizRemoveButtons: the remove buttons are disabled while
\* the form holds one block
RemoveQuestion == \E fid \in CreateForms :
    \E i \in DOMAIN form.fields.blocks :
        /\ form.id = fid
        /\ Len(form.fields.blocks) > 1
        /\ removeCreateQuestion(fid, form.fields.blocks[i].id)

TypeQuestion == \E fid \in CreateForms : \E i \in DOMAIN form.fields.blocks :
                    \E text \in {Spaces, Word} : typeQuestion(fid, i, text)

TypeMeta == \E fid \in CreateForms : typeMeta(fid)

SubmitCreate == \E fid \in CreateForms :
                    /\ form.id = fid
                    /\ invoke(SubmitOf(fid), TRUE, MaxSubmits)

CreateNext ==
    ShowCreate \/ AddQuestion \/ RemoveQuestion \/ TypeQuestion \/ TypeMeta
        \/ SubmitCreate

CreateSpec == ConsoleInit /\ [][CreateNext]_vars

(***************************************************************************)
(* The modal openers                                                       *)
(***************************************************************************)
\* O(modal, reads, catch): the id the opener inserts, the reads it awaits
\* before (0: it inserts at once) and how its catch reports a failure
O(modal, reads, onError) ==
    [modal |-> modal, reads |-> reads, onError |-> onError]

OpenerNames ==
    {"editQuizMeta", "duplicateQuiz", "previewQuiz", "editQuizQuestion",
     "showAddQuizQuestionForm", "editRaffleQuestion", "editRaffleMeta",
     "duplicateRaffle", "previewRaffle", "showAddRaffleQuestionForm",
     "searchTicket", "checkTicketTime", "searchUser", "viewUserTickets"}

Openers == [o \in OpenerNames |->
    CASE o = "editQuizMeta" -> O("editQuizMetaModal", 1, "toast")
      [] o = "duplicateQuiz" -> O("duplicateQuizModal", 1, "toast")
      [] o = "previewQuiz" -> O("previewQuizModal", 2, "toast")
      [] o = "editQuizQuestion" -> O("editQuizQuestionModal", 1, "alert")
      [] o = "showAddQuizQuestionForm" -> O("addQuizQuestionModal", 0, "none")
      [] o = "editRaffleQuestion" -> O("editRaffleQuestionModal", 1, "alert")
      [] o = "editRaffleMeta" -> O("editRaffleMetaModal", 1, "toast")
      [] o = "duplicateRaffle" -> O("duplicateRaffleModal", 1, "toast")
      [] o = "previewRaffle" -> O("previewRaffleModal", 2, "toast")
      [] o = "showAddRaffleQuestionForm" ->
           O("addRaffleQuestionModal", 0, "none")
      [] o = "searchTicket" -> O("ticketModal", 1, "alert")
      [] o = "checkTicketTime" -> O("ticketModal", 1, "alert")
      [] o = "searchUser" -> O("userModal", 1, "alert")
      [] o = "viewUserTickets" -> O("userTicketsModal", 1, "alert")]

\* the form a modal holds when it is a form modal
FormOf(id) ==
    IF id \in ModalIds THEN [id |-> id, fields |-> DefaultFields(id)]
    ELSE form

\* The operator triggers opener o: it inserts its modal at once, or calls
\* apiFetch for its reads and awaits them.
startOpener(o) ==
    LET info == Openers[o]
    IN  /\ notice' = Notice(o, "", 0)
        /\ reply' = NoReply
        /\ UNCHANGED <<content, calls, _loadingCount, display, lastFetch,
                       server, showingRegistered, window>>
        /\ IF info.reads = 0
           THEN /\ modals' = insertModal(info.modal)
                /\ form' = FormOf(info.modal)
                /\ UNCHANGED <<requests, ops>>
           ELSE /\ Len(ops) < MaxModals
                /\ requests' = requests + info.reads
                /\ ops' = Append(ops, NewOp(o, "", NoBody))
                /\ UNCHANGED <<modals, form>>

\* The awaited reads of opener invocation k settle with fetched (for the
\* previews, their Promise.all).  The opener builds the modal from the
\* members of the reply, which throws on the JSON value null; its catch
\* reports a rejection or a throw.
finishOpener(k, fetched) ==
    LET op == ops[k]
        info == Openers[op.h]
        rejected == fetched.tag = "rejected"
        throws == ~rejected /\ fetched.value.kind = "null"
        opens == ~rejected /\ ~throws
    IN  /\ op.pc = "await"
        /\ op.h \in OpenerNames
        /\ ops' = [ops EXCEPT ![k].pc = "done", ![k].failed = rejected,
                              ![k].errs = IF opens THEN 0 ELSE 1]
        /\ modals' = IF opens THEN insertModal(info.modal) ELSE modals
        /\ form' = IF opens THEN FormOf(info.modal) ELSE form
        /\ notice' = NoNotice
        /\ reply' = fetched
        /\ UNCHANGED <<content, calls, requests, _loadingCount, display,
                       lastFetch, server, showingRegistered, window>>

\* data-bs-dismiss on a modal: its hidden.bs.modal listener removes it
closeModal(id) ==
    /\ modals[id] > 0
    /\ modals' = removeModal(id)
    /\ UNCHANGED <<showingRegistered, window>>
    /\ form' = IF form.id = id THEN NoForm ELSE form
    /\ notice' = NoNotice
    /\ reply' = NoReply
    /\ UNCHANGED <<content, calls, requests, _loadingCount, display, ops,
                   lastFetch, server>>

\* no modal with its backdrop covers the page
NoModalShown == \A id \in AllModalIds : modals[id] = 0

StartOpen == \E o \in OpenerNames : NoModalShown /\ startOpener(o)

FinishOpen == \E k \in DOMAIN ops : \E fetched \in LoaderOutcomes :
                  finishOpener(k, fetched)

CloseModal == \E id \in AllModalIds : closeModal(id)

ModalNext == StartOpen \/ FinishOpen \/ CloseModal

ModalSpec == ConsoleInit /\ [][ModalNext]_vars

(***************************************************************************)
(* The search box of a list                                                *)
(***************************************************************************)
\* Texts are sequences of characters here: two cases of a letter, the
\* space and a character escapeHtml rewrites.
Chars == {"a", "A", " ", "&"}
Strings(n) == UNION {[1..m -> Chars] : m \in 0..n}

\* escapeHtml on the characters above: '&' becomes '&amp;'
Amp == <<"&", "a", "m", "p", ";">>
RECURSIVE escapeHtml(_)
escapeHtml(str) ==
    IF str = <<>> THEN <<>>
    ELSE (IF Head(str) = "&" THEN Amp ELSE <<Head(str)>>)
             \o escapeHtml(Tail(str))

\* getAttribute on an attribute written into innerHTML: the HTML parser
\* has decoded the character references
RECURSIVE getAttribute(_)
getAttribute(html) ==
    IF html = <<>> THEN <<>>
    ELSE IF Len(html) >= 5 /\ SubSeq(html, 1, 5) = Amp
         THEN <<"&">> \o getAttribute(SubSeq(html, 6, Len(html)))
         ELSE <<Head(html)>> \o getAttribute(Tail(html))

\* String.prototype.toLowerCase without the case mapping
toLowerCase_same(str) == str

\* String.prototype.toLowerCase
toLowerCase(str) == [i \in DOMAIN str |-> IF str[i] = "A" THEN "a" ELSE str[i]]

\* String.prototype.trim on character sequences
RECURSIVE trimStart(_)
trimStart(str) ==
    IF str # <<>> /\ Head(str) = " " THEN trimStart(Tail(str)) ELSE str
RECURSIVE trimEnd(_)
trimEnd(str) ==
    IF str # <<>> /\ str[Len(str)] = " "
    THEN trimEnd(SubSeq(str, 1, Len(str) - 1)) ELSE str
trimString(str) == trimEnd(trimStart(str))

\* String.prototype.includes
includes(str, q) ==
    \E i \in 0..Len(str) :
        i + Len(q) <= Len(str) /\ SubSeq(str, i + 1, i + Len(q)) = q

\* the items the list was rendered from: an untitled one and a titled one
Item(key, title) == [key |-> key, title |-> title]
SearchItems(title) == <<Item(<<"A">>, <<>>), Item(<<"a", "a">>, title)>>

\* the rows of the list as loadQuiz writes them (data-quiz-date and
\* data-quiz-title through escapeHtml), the search box and the rows with
\* style.display = 'none'
SearchView(p, items, q, hidden) ==
    [kind |-> "list", page |-> p, msg |-> "",
     attrs |-> [i \in DOMAIN items |->
                   Item(getAttribute(escapeHtml(items[i].key)),
                        getAttribute(escapeHtml(items[i].title)))],
     search |-> q, hidden |-> hidden]

\* the input handler's test for one row
rowMatches(q, row) ==
    LET d == toLowerCase(row.key)
        t == toLowerCase(row.title)
    IN  q = <<>> \/ includes(d, q) \/ includes(t, q)

\* a list page just rendered: empty search box, every row shown
SearchInit ==
    /\ \E title \in Strings(MaxLen) : server = SearchItems(title)
    /\ \E p \in Lists :
          /\ calls = <<[NewCall("dashboard") EXCEPT !.pc = "Rendered",
                                                    !.pending = {}],
                       [NewCall(p) EXCEPT !.pc = "Rendered",
                                          !.pending = {}]>>
          /\ content = SearchView(p, server, <<>>, {})
          /\ requests = FetchCount["dashboard"] + FetchCount[p]
    /\ _loadingCount = 0
    /\ display = ""
    /\ ops = <<>>
    /\ form = NoForm
    /\ notice = NoNotice
    /\ lastFetch = NoFetch
    /\ reply = NoReply
    /\ modals = NoModals
    /\ showingRegistered = FALSE
    /\ window = NoWindow

\* the input event of the search box after the operator typed value
onSearchInput(value) ==
    LET q == toLowerCase(trimString(value))
    IN  /\ content.kind = "list"
        /\ content' = [content EXCEPT
                          !.search = value,
                          !.hidden = {i \in DOMAIN content.attrs :
                                         ~rowMatches(q, content.attrs[i])}]
        /\ notice' = NoNotice
        /\ reply' = NoReply
        /\ UNCHANGED <<calls, requests, _loadingCount, display, ops, form,
                       lastFetch, server, modals,
                       showingRegistered, window>>

TypeSearch == \E value \in Strings(MaxLen) :
                  value # content.search /\ onSearchInput(value)

SearchNext == TypeSearch

SearchSpec == SearchInit /\ [][SearchNext]_vars

\* apiFetch on every response the transport can hand back
Fetch == \E resp \in Responses : fetchOnce(resp)

FetchNext == Fetch

FetchSpec == ConsoleInit /\ [][FetchNext]_vars

(***************************************************************************)
(* Claims about the router                                                 *)
(***************************************************************************)
\* call c left Loading in this step (or was created already settled)
JustSettled(c) ==
    /\ calls'[c].pc # "Loading"
    /\ c \in DOMAIN calls => calls[c].pc = "Loading"

\* C1: when the loader dispatched by a loadPage call settles, #content no
\* longer shows the loading placeholder; if the loader rejected, #content is
\* the error box carrying the caught error's text; if the key matches no
\* page, #content is the "page not found" warning and no request was issued.
C1_LoadPageSettled ==
    [][\A c \in DOMAIN calls' :
          JustSettled(c) =>
              /\ content' # Placeholder
              /\ calls'[c].pc = "Errored" =>
                     /\ calls'[c].err # ""
                     /\ content' = ErrorBox(calls'[c].err)
              /\ calls'[c].page \notin Pages =>
                     /\ content' = NotFound
                     /\ requests' = requests]_vars

\* a loader has rejected and its error text is on screen
C1_Witness ==
    \E c \in DOMAIN calls :
        /\ calls[c].pc = "Errored"
        /\ calls[c].err = "detail-text"
        /\ content = ErrorBox("detail-text")

\* C2: with every request eventually settling, a loadPage call that entered
\* Loading eventually is Rendered or Errored; a call that is Rendered or
\* Errored stays so, and #content goes back to the placeholder only in a
\* step that is a new loadPage call.
C2_LoadingEnds ==
    /\ \A c \in 1..(MaxLoads + 1) :
           (c \in DOMAIN calls /\ calls[c].pc = "Loading")
               ~> (c \in DOMAIN calls /\ calls[c].pc \in {"Rendered", "Errored"})
    /\ [][/\ \A c \in DOMAIN calls :
               calls[c].pc \in {"Rendered", "Errored"}
                   => calls'[c].pc = calls[c].pc
          /\ (content # Placeholder /\ content' = Placeholder)
                   => Len(calls') = Len(calls) + 1]_vars

\* a call that was Loading has been rendered
C2_Witness ==
    \E c \in DOMAIN calls :
        /\ calls[c].page \in Pages
        /\ calls[c].pc = "Rendered"
        /\ content = Rendering(calls[c].page)

\* what a settled call wrote into #content
Shown(call) ==
    IF call.page \notin Pages THEN NotFound
    ELSE IF call.pc = "Rendered" THEN Rendering(call.page)
    ELSE ErrorBox(call.err)

AllSettled == \A c \in DOMAIN calls : calls[c].pending = {}

\* C3: once all requests have settled, #content shows the rendering (or the
\* error) of the most recent loadPage call.
C3_LastCallShown ==
    AllSettled => content = Shown(calls[Len(calls)])

(***************************************************************************)
(* Claims about the loading indicator                                      *)
(***************************************************************************)
\* the apiAction calls between setGlobalLoading(true) and the finally block
InFlight ==
    {k \in DOMAIN ops : ops[k].pc = "await"
                        /\ Handlers[ops[k].h].via = "apiAction"}

\* C4: in every reachable state the counter _loadingCount is non-negative
\* and equals the number of apiAction calls in flight, and the blocking
\* indicator is displayed exactly when the counter is greater than 0.
C4_LoadingCount ==
    /\ _loadingCount >= 0
    /\ _loadingCount = Cardinality(InFlight)
    /\ Displayed <=> _loadingCount > 0

\* two apiAction calls were in flight together and one of them has settled
C4_Witness ==
    /\ _loadingCount = 1
    /\ display = "flex"
    /\ \E j \in DOMAIN ops, k \in DOMAIN ops :
           /\ ops[j].pc = "await" /\ ops[k].pc # "await"
           /\ Handlers[ops[j].h].via = "apiAction"
           /\ Handlers[ops[k].h].via = "apiAction"

\* C5: every apiAction call takes the counter down by exactly one when it
\* settles, whether apiFetch resolved or rejected; once every started
\* apiAction has settled the counter is 0 and the indicator is hidden.
C5_NoLeak ==
    /\ [](InFlight = {} => (_loadingCount = 0 /\ ~Displayed))
    /\ [][\A k \in InFlight :
             ops'[k].pc # "await" => _loadingCount' = _loadingCount - 1]_vars

\* an apiAction call was rejected, nothing is in flight, the indicator is off
C5_Witness ==
    /\ \E k \in DOMAIN ops :
           /\ Handlers[ops[k].h].via = "apiAction"
           /\ ops[k].pc = "done"
           /\ ops[k].failed
    /\ InFlight = {}
    /\ _loadingCount = 0
    /\ display = "none"

(***************************************************************************)
(* Claims about apiFetch                                                   *)
(***************************************************************************)
\* the body of the response parses as JSON
Parses(resp) == resp.body \in {"object", "null"}

\* C6 as stated: apiFetch never resolves for a non-2xx response; it rejects
\* with the message field of the parsed error body when the body parses and
\* with the HTTP status text when it does not; it resolves, with the parsed
\* JSON, only for a 2xx response.
C6_MessageField ==
    lastFetch # NoFetch =>
        LET resp == lastFetch.resp
            out == lastFetch.out
        IN  /\ (resp.net = "up" /\ ~resp.ok) =>
                   /\ out.tag = "rejected"
                   /\ Parses(resp) => out.message = resp.message
                   /\ ~Parses(resp) => out.message = resp.statusText
            /\ out.tag = "resolved" =>
                   (resp.net = "up" /\ resp.ok /\ out.value = JsonValue(resp))

\* C6 amended: apiFetch never resolves for a non-2xx response; it rejects
\* with the detail member of the parsed error body when the body is an
\* object with a non-empty detail, with the HTTP status text when the body
\* does not parse and the status text is not empty, with the fixed text when
\* that detail or status text is missing or empty, and with the TypeError
\* when the body is null; the body's message member is never used.  It
\* resolves, with the parsed JSON, only for a 2xx response.
C6_DetailField ==
    lastFetch # NoFetch =>
        LET resp == lastFetch.resp
            out == lastFetch.out
        IN  /\ (resp.net = "up" /\ ~resp.ok) =>
                   /\ out.tag = "rejected"
                   /\ (resp.body = "object" /\ resp.detail # "")
                          => out.message = resp.detail
                   /\ (resp.body = "object" /\ resp.detail = "")
                          => out.message = API_FALLBACK
                   /\ (resp.body = "null") => out.message = "TypeError"
                   /\ (~Parses(resp) /\ resp.statusText # "")
                          => out.message = resp.statusText
                   /\ (~Parses(resp) /\ resp.statusText = "")
                          => out.message = API_FALLBACK
            /\ out.tag = "resolved" =>
                   (resp.net = "up" /\ resp.ok /\ out.value = JsonValue(resp))

\* a non-2xx reply whose body carries both members was rejected with detail
C6_Witness ==
    /\ lastFetch # NoFetch
    /\ lastFetch.resp.net = "up"
    /\ ~lastFetch.resp.ok
    /\ lastFetch.resp.body = "object"
    /\ lastFetch.resp.detail = "detail-text"
    /\ lastFetch.resp.message = "message-text"
    /\ lastFetch.out = Rejected("detail-text")

(***************************************************************************)
(* Claims about the action handlers and their forms                        *)
(***************************************************************************)
\* the requests the loads in calls issued
RECURSIVE LoadRequests(_)
LoadRequests(n) ==
    IF n = 0 THEN 0
    ELSE LoadRequests(n - 1)
         + (IF calls[n].page \in DOMAIN FetchCount
            THEN FetchCount[calls[n].page] ELSE 0)

\* C7: a failed call is surfaced once and never retried: every handler
\* invocation issues exactly one request of its own, and for every
\* invocation whose request failed exactly one error notification is shown,
\* saveQuizQuestion included.
C7_SurfacedOnce ==
    /\ requests = Len(ops) + LoadRequests(Len(calls))
    /\ \A k \in DOMAIN ops : ops[k].failed => ops[k].errs = 1

\* a required input of form id is missing or empty after trimming, or a quiz
\* option slot is empty
MissingRequired(id, f) ==
    \/ HasKey(id) /\ trim(f.key) = ""
    \/ HasMeta(id) /\ (f.startsAt = "" \/ trim(f.title) = "")
    \/ HasBlock(id) /\ Len(f.blocks) = 0
    \/ \E i \in DOMAIN f.blocks :
           LET b == f.blocks[i]
           IN  \/ trim(b.text) = ""
               \/ HasQid(id) /\ b.qid = ""
               \/ ~IsQuizForm(id) /\ trim(b.qtitle) = ""
               \/ IsQuizForm(id) /\ \E o \in OptKeys : trim(b.opts[o]) = ""

\* the step is an invocation of handler h
Invoked(h) == notice'.h = h /\ notice'.msg # "cancelled"

\* C8: a submission of a create or edit form in which a required field is
\* missing or empty after trimming, or a quiz option slot is empty, issues
\* no network call and shows a validation message.
C8_RejectedLocally ==
    [][\A h \in HandlerNames :
          (/\ Handlers[h].form # "none"
           /\ form.id = Handlers[h].form
           /\ Invoked(h)
           /\ MissingRequired(form.id, form.fields))
          => (/\ requests' = requests
              /\ ops' = ops
              /\ notice'.msg # "")]_vars

QuizQuestionHandlers ==
    {"submitCreateQuiz", "saveAddQuizQuestion", "saveQuizQuestion"}

\* C9: in every request that creates or updates a quiz question the
\* correct_answer is a key of the submitted options and that option's text
\* is not empty; a submission whose selected correct answer is not among
\* the submitted option keys is rejected locally without a network call.
C9_CorrectAnswerAmongOptions ==
    /\ [](\A k \in DOMAIN ops :
            (ops[k].pc = "await" /\ ops[k].h \in QuizQuestionHandlers) =>
                \A i \in DOMAIN ops[k].req.questions :
                    LET q == ops[k].req.questions[i]
                    IN  /\ q.correct \in DOMAIN q.options
                        /\ q.options[q.correct] # "")
    /\ [][\A h \in QuizQuestionHandlers :
            (/\ form.id = Handlers[h].form
             /\ Invoked(h)
             /\ \E i \in DOMAIN form.fields.blocks :
                    LET b == form.fields.blocks[i]
                    IN  b.correct \notin
                            DOMAIN SentQuestion(h, b).options)
            => (requests' = requests /\ ops' = ops)]_vars

ModalHandlers == {h \in HandlerNames : Handlers[h].form \in ModalIds}

\* invocation k settled in this step
Settled(k) == ops[k].pc = "await" /\ ops'[k].pc # "await"

\* C10: when the network call of a modal form submission fails, the modal
\* stays open with its field values and the parent view is not reloaded;
\* the modal is closed only after a successful call of its handler or by
\* the operator dismissing it.
C10_ModalStaysOpen ==
    [][/\ \A k \in DOMAIN ops :
             (Settled(k) /\ ops[k].h \in ModalHandlers /\ ops'[k].failed)
                 => (form' = form /\ calls' = calls /\ content' = content)
       /\ (form.id \in ModalIds /\ form' # form /\ form'.id # form.id) =>
             \/ \E k \in DOMAIN ops :
                    /\ Settled(k)
                    /\ Handlers[ops[k].h].form = form.id
                    /\ ~ops'[k].failed
             \/ (form' = NoForm /\ ops' = ops /\ calls' = calls)]_vars

\* the duplicate-quiz request was rejected and the modal still shows the
\* date and the title the operator entered
C10_Witness ==
    /\ \E k \in DOMAIN ops :
           /\ ops[k].h = "saveDuplicateQuiz"
           /\ ops[k].pc = "done"
           /\ ops[k].failed
    /\ form.id = "duplicateQuizModal"
    /\ form.fields.startsAt # ""
    /\ form.fields.title = Word

(***************************************************************************)
(* Claims about what follows a successful request                          *)
(***************************************************************************)
\* the call of handler h was successful: a 2xx reply with a JSON object,
\* which saveQuizQuestion also requires to carry success
Accepted(h, out) ==
    /\ out.tag = "resolved"
    /\ out.value.kind = "object"
    /\ h = "saveQuizQuestion" => out.value.success

\* the step appended a load of view p
Loads(p) ==
    /\ Len(calls') = Len(calls) + 1
    /\ calls'[Len(calls')].page = p

\* C11: on every successful modal form submission (quiz and raffle: save
\* meta, save duplicate, add question, edit question) the modal is closed,
\* a success notification is shown and the parent detail view is reloaded.
C11_CloseNotifyReload ==
    [][/\ \A k \in DOMAIN ops :
             (/\ Settled(k)
              /\ ops[k].h \in ModalHandlers
              /\ Accepted(ops[k].h, reply'))
             => (/\ form'.id # Handlers[ops[k].h].form
                 /\ Loads(Handlers[ops[k].h].after)
                 /\ ops'[k].oks >= 1 \/ ops'[k].pc = "loading")
       /\ \A k \in DOMAIN ops :
             (ops[k].pc = "loading" /\ ops'[k].pc = "done")
                 => ops'[k].oks >= 1]_vars

\* the handlers that create, edit or delete a resource, by resource
QuizMutations ==
    {"submitCreateQuiz", "saveQuizMeta", "saveDuplicateQuiz",
     "toggleQuizDate", "deleteQuiz", "saveQuizQuestion",
     "saveAddQuizQuestion", "removeQuizQuestion"}
RaffleMutations ==
    {"submitCreateRaffle", "saveRaffleMeta", "saveDuplicateRaffle",
     "toggleRaffleDate", "deleteRaffle", "saveRaffleQuestion",
     "saveAddRaffleQuestion", "removeRaffleQuestion"}
DiceMutations == {"createDice", "editDice", "toggleDice", "deleteDice"}
AnswerMutations == {"approveAnswer", "denyAnswer"}
TicketMutations == {"removeTicket"}
Mutations ==
    QuizMutations \cup RaffleMutations \cup DiceMutations
        \cup AnswerMutations \cup TicketMutations

\* the list and detail views a mutation affects
Affected(h) ==
    IF h \in QuizMutations THEN {"quiz", "quizDetail"}
    ELSE IF h \in RaffleMutations THEN {"raffle", "raffleDetail"}
    ELSE IF h \in DiceMutations THEN {"dice", "diceDetail"}
    ELSE IF h \in TicketMutations THEN {"tickets"}
    ELSE {"dashboard"}

\* a load left Loading in this step
SomeLoadSettled ==
    \E c \in DOMAIN calls : calls[c].pc = "Loading" /\ calls'[c].pc # "Loading"

ListActions ==
    {"toggleQuizDate", "deleteQuiz", "toggleRaffleDate", "deleteRaffle",
     "toggleDice", "deleteDice"}

\* C13: a toggle or delete action on a list item calls the API and then
\* reloads its list unconditionally: when the call settles, succeeded or
\* failed, the list is fetched again.
C13_ReloadsUnconditionally ==
    [][\A k \in DOMAIN ops :
          (Settled(k) /\ ops[k].h \in ListActions)
          => Loads(Handlers[ops[k].h].after)]_vars

\* every request has been answered and every continuation has run
NothingUnderWay ==
    /\ \A k \in DOMAIN ops : ops[k].pc = "done"
    /\ \A c \in DOMAIN calls : calls[c].pc # "Loading"

\* C14: after any sequence of toggle and delete actions on a list, also
\* when a second action is started before the first has settled and the
\* reloads' replies arrive in any order, once all requests have settled
\* the list on screen shows the server's collection: the same rows, each
\* with the server's current enabled or disabled flag.
C14_ListReflectsServer ==
    (NothingUnderWay /\ content.kind = "page" /\ content.page = "quiz")
    => content.rows = server

\* C15: for every detail view (quiz, raffle and dice), when one of its
\* fetches rejects, #content is replaced by the view's error panel (with
\* its back-to-list control and none of the detail content); it is not
\* left as it was, blank or partially rendered.
C15_DetailErrorPanel ==
    [][\A c \in DOMAIN calls :
          (/\ calls[c].page \in Details3
           /\ calls[c].pc = "Loading"
           /\ calls'[c].pc = "Errored"
           /\ reply'.tag = "rejected")
          => content' = ErrorPanel(calls[c].page, reply'.message)]_vars

\* a reply of load c was handled in this step
Handled(c) == calls[c].pc = "Loading" /\ calls'[c] # calls[c]

\* C16: in every view that fans out several reads, a failure of any one of
\* the calls fails the whole join: the load ends with the error and the
\* view is not rendered from the calls that succeeded.
C16_JoinFails ==
    [][\A c \in DOMAIN calls :
          (/\ Handled(c)
           /\ FetchCount[calls[c].page] > 1
           /\ reply'.tag = "rejected")
          => calls'[c].pc = "Errored"]_vars

\* the step showed the operator an error: an error box or panel with the
\* error's text, an error toast or an alert
ErrorShown ==
    \/ content'.kind \in {"error", "panel"} /\ content'.msg = reply'.message
    \/ notice'.msg = "toastError"
    \/ \E k \in DOMAIN ops : ops'[k].errs > ops[k].errs

\* C17: transport failures and non-2xx responses are never swallowed: for
\* every request a loader or an action handler issued, when it fails the
\* operator is shown a notification, an alert or an inline error panel.
C17_NeverSwallowed ==
    [][reply'.tag = "rejected" => ErrorShown]_vars

DeleteActions ==
    {"deleteQuiz", "deleteRaffle", "deleteDice", "removeQuizQuestion",
     "removeRaffleQuestion", "removeTicket"}

\* C18: every delete action is preceded by an explicit confirmation step:
\* its request goes out only in a step in which the operator accepted the
\* confirmation, and when the operator cancels it no network call is
\* issued and the displayed view is unchanged.
C18_ConfirmedDelete ==
    [][\A h \in DeleteActions :
          notice'.h = h
          => \/ /\ notice'.msg = "cancelled"
                /\ requests' = requests
                /\ ops' = ops
                /\ calls' = calls
                /\ content' = content
                /\ form' = form
             \/ /\ notice'.msg = "confirmed"
                /\ requests' = requests + 1]_vars

\* the operator cancelled a delete before anything was sent
C18_Witness ==
    /\ notice.h \in DeleteActions
    /\ notice.msg = "cancelled"
    /\ ops = <<>>
    /\ requests = FetchCount["dashboard"]
    /\ content = Rendering("dashboard")

DuplicateHandlers == {"saveDuplicateQuiz", "saveDuplicateRaffle"}

\* C19: a successful duplicate (quiz or raffle) navigates directly to the
\* detail view of the key returned in the response, not to the source's
\* detail view and not to the list, and shows one success notification,
\* which mentions the scheduler update exactly when the response's
\* scheduled flag is true.
C19_DuplicateOpensNew ==
    [][\A k \in DOMAIN ops :
          (/\ Settled(k)
           /\ ops[k].h \in DuplicateHandlers
           /\ Accepted(ops[k].h, reply'))
          => (/\ Loads(Handlers[ops[k].h].after)
              /\ Handlers[ops[k].h].after \in Details3
              /\ calls'[Len(calls')].key = reply'.value.key
              /\ ops'[k].oks = 1
              /\ (ops'[k].toast = "with-update") <=> reply'.value.scheduled
              /\ ops'[k].toast \in {"with-update", "plain"})]_vars

\* a duplicate was accepted with a new key and scheduled = true, and the
\* detail view of the new key has been rendered
C19_Witness ==
    /\ Len(ops) >= 1
    /\ ops[1].h = "saveDuplicateQuiz"
    /\ ops[1].pc = "done"
    /\ ops[1].toast = "with-update"
    /\ Len(calls) >= 2
    /\ calls[2].page = "quizDetail"
    /\ calls[2].key = "new-key"
    /\ calls[2].pc = "Rendered"
    /\ content = Rendering("quizDetail")

\* the same letter in either case
Fold(c) == IF c = "A" THEN "a" ELSE c

\* text contains q, letters compared without regard to case
ContainsCI(text, q) ==
    \E i \in 0..Len(text) :
        /\ i + Len(q) <= Len(text)
        /\ \A j \in 1..Len(q) : Fold(text[i + j]) = Fold(q[j])

\* q without the spaces around it
Stripped(q) ==
    LET inked == {i \in 1..Len(q) : q[i] # " "}
    IN  IF inked = {} THEN <<>>
        ELSE SubSeq(q, CHOOSE a \in inked : \A b \in inked : a <= b,
                       CHOOSE a \in inked : \A b \in inked : a >= b)

\* the rows on screen show exactly the items that contain q
ShowsItemsWith(q) ==
    \A i \in DOMAIN server :
        (i \notin content.hidden)
        <=> (ContainsCI(server[i].key, q) \/ ContainsCI(server[i].title, q))

\* C20 as stated: for every search input q typed into a list's search
\* box, the visible rows are exactly the items whose key or title contains
\* q case-insensitively, and an empty q makes every row visible.
C20_VisibleContainQ ==
    /\ ShowsItemsWith(content.search)
    /\ content.search = <<>> => content.hidden = {}

\* C20, amended: the visible rows are exactly the items whose key or title
\* contains, case-insensitively, q without its surrounding whitespace; a q
\* that is empty or only whitespace makes every row visible.
C20_VisibleContainStripped ==
    /\ ShowsItemsWith(Stripped(content.search))
    /\ Stripped(content.search) = <<>> => content.hidden = {}

\* a search text with a space after it was typed: the titled row, which
\* contains the text without the space, is shown and the untitled row is
\* hidden
C20_Witness ==
    /\ content.search = <<"&", " ">>
    /\ server[2].title = <<"A", "&">>
    /\ content.hidden = {1}

\* C21: for every modal id the console uses, at most one element with
\* that id is in the document at any time, also when the same opener is
\* triggered twice before the first has finished its fetch.
C21_OneModalPerId ==
    \A id \in AllModalIds : modals[id] <= 1

\* the handlers behind the toggle and delete buttons of a list row
RowButtonHandlers ==
    {InlineHandler(p, t) : p \in Lists, t \in {"toggle", "delete"}}

\* this step starts a detail loader
DetailStarted ==
    /\ Len(calls') > Len(calls)
    /\ calls'[Len(calls')].page \in Details3

\* C22: a click on the toggle or delete button of a row of the quiz, raffle
\* or dice list never starts the detail loader; a detail loader starts only
\* in the step of a click on the row's link.
C22_ButtonsDoNotNavigate ==
    [][/\ notice'.h \in RowButtonHandlers => ~DetailStarted
       /\ DetailStarted =>
             notice' \in {Notice(DetailLoader(p), "link", 0) : p \in Lists}
      ]_vars

\* a row button was clicked and its request is in flight, the list still
\* on screen and no detail loader started
C22_Witness ==
    /\ notice.h \in RowButtonHandlers
    /\ Len(ops) > 0
    /\ ops[Len(ops)].pc = "await"
    /\ content.kind = "page"
    /\ content.page \in Lists
    /\ \A c \in DOMAIN calls : calls[c].page \notin Details3

Previews == {"previewQuiz", "previewRaffle"}

\* invocation k was started or has settled in this step
Moved(k) == k \notin DOMAIN ops \/ ops[k].pc # ops'[k].pc

\* C23: previewQuiz and previewRaffle change nothing: their requests are
\* GETs, the content region, the loads, the forms and the server's data
\* stay as they are, and the only thing added is the preview modal, or an
\* error notification when the preview could not be built.
C23_PreviewReadOnly ==
    [][\A k \in DOMAIN ops' :
          ops'[k].h \in Previews /\ Moved(k) =>
              LET id == Openers[ops'[k].h].modal
              IN  /\ ops'[k].method = "GET"
                  /\ content' = content
                  /\ calls' = calls
                  /\ server' = server
                  /\ form' = form
                  /\ _loadingCount' = _loadingCount
                  /\ \A m \in AllModalIds \ {id} : modals'[m] = modals[m]
                  /\ k \in DOMAIN ops =>
                        \/ ops'[k].errs = 0 /\ modals'[id] = 1
                        \/ ops'[k].errs = 1 /\ modals' = modals
      ]_vars

\* a preview has been built and is shown
C23_Witness ==
    \E k \in DOMAIN ops :
        /\ ops[k].h = "previewQuiz"
        /\ ops[k].pc = "done"
        /\ ops[k].errs = 0
        /\ modals["previewQuizModal"] = 1

\* C24: a rendered list has one row per item of the reply, in order, and a
\* row shows the 'Disable' control without the disabled badge exactly when
\* its item is enabled (quiz, raffle: its date is not in the fetched
\* disabled dates; dice: its enabled member is true), and the 'Enable'
\* control with the badge otherwise.
C24_RowPerItem ==
    calls[2].pc = "Rendered" =>
        LET v == reply.value
            rows == content.rows
            on(i) == IF v.page = "dice" THEN v.items[i].enabled
                     ELSE v.items[i].key \notin v.disabled
        IN  /\ content.page = v.page
            /\ Len(rows) = Len(v.items)
            /\ \A i \in 1..Len(rows) :
                  /\ rows[i].key = v.items[i].key
                  /\ on(i) => rows[i].control = "Disable" /\ ~rows[i].badge
                  /\ ~on(i) => rows[i].control = "Enable" /\ rows[i].badge

\* a quiz list rendered with an enabled and a disabled item whose enabled
\* members say the opposite
C24_Witness ==
    /\ calls[2].pc = "Rendered"
    /\ content.page = "quiz"
    /\ Len(content.rows) = 2
    /\ content.rows[1].control = "Disable"
    /\ content.rows[2].control = "Enable"
    /\ ~reply.value.items[1].enabled
    /\ reply.value.items[2].enabled

\* C25: the console does not de-duplicate requests: every activation of a
\* toggle or delete button the operator confirms sends its own request,
\* also while a request of the same action on the same item is in flight,
\* and every such request that succeeds starts its own reload of the list.
C25_NoDeduplication ==
    [][/\ \A h \in ListActions :
             Invoked(h) => /\ Len(ops') = Len(ops) + 1
                           /\ ops'[Len(ops')].h = h
                           /\ ops'[Len(ops')].pc = "await"
                           /\ requests' = requests + 1
       /\ \A k \in DOMAIN ops :
             (/\ Settled(k)
              /\ ops[k].h \in ListActions
              /\ Accepted(ops[k].h, reply'))
             => /\ Loads(Handlers[ops[k].h].after)
                /\ calls'[Len(calls')].pc = "Loading"
                /\ requests' = requests + FetchCount[Handlers[ops[k].h].after]
      ]_vars

\* two requests of the same action on the same item are in flight
C25_Witness ==
    /\ Len(ops) = 2
    /\ ops[1].h = ops[2].h
    /\ ops[1].item = ops[2].item
    /\ ops[1].pc = "await"
    /\ ops[2].pc = "await"

\* C26: whenever the users table is on screen, its 'registered only'
\* label, its highlighted filter button and its column set are those of the
\* endpoint the displayed rows were fetched from, also when the filter was
\* switched while an earlier loadUsers fetch was in flight.
C26_FilterMatchesRows ==
    (content.kind = "page" /\ content.page = "users") =>
        LET t == content.rows
            registered == t.from = "/users/registered"
        IN  /\ t.label = registered
            /\ t.highlighted = (IF registered THEN "registered" ELSE "all")
            /\ t.registeredColumn = ~registered

\* C27: when a request sent through apiAction fails, the handler leaves the
\* content region as it was (it starts no load, navigates nowhere and
\* writes nothing); it shows an error notification and no success
\* notification, and the loading indicator goes back by the one count the
\* request had added.
C27_FailureLeavesContent ==
    [][\A k \in DOMAIN ops :
          (/\ Settled(k)
           /\ Handlers[ops[k].h].via = "apiAction"
           /\ reply'.tag = "rejected")
          => /\ content' = content
             /\ calls' = calls
             /\ requests' = requests
             /\ form' = form
             /\ modals' = modals
             /\ ops'[k].pc = "done"
             /\ ops'[k].errs >= 1
             /\ ops'[k].oks = 0
             /\ _loadingCount > 0
             /\ _loadingCount' = _loadingCount - 1
             /\ display' = (IF _loadingCount' > 0 THEN "flex" ELSE "none")
      ]_vars

\* a toggle sent through apiAction has failed: the console shows what it
\* showed, and the indicator is off again
C27_Witness ==
    /\ Len(ops) = 1
    /\ ops[1].h = "toggleQuizDate"
    /\ ops[1].pc = "done"
    /\ ops[1].failed
    /\ ops[1].errs = 1
    /\ _loadingCount = 0
    /\ display = "none"
    /\ Len(calls) = 1

\* the ids of the blocks of a form
BlockIds(f) == {f.fields.blocks[i].id : i \in DOMAIN f.fields.blocks}

\* the blocks a create form holds: at least one, their ids increasing from
\* one block to the next, none above the counter
BlocksInOrder(f, w) ==
    f.id \in CreateForms =>
        LET blocks == f.fields.blocks
        IN  /\ Len(blocks) >= 1
            /\ \A i \in DOMAIN blocks : \A j \in DOMAIN blocks :
                  i < j => blocks[i].id < blocks[j].id
            /\ \A i \in DOMAIN blocks : blocks[i].id <= w[counterOf(f.id)]

\* C28: after any sequence of add-question and remove-question operations a
\* create form holds at least one question block, the ids of its blocks are
\* pairwise distinct, and within a form instance an id is never given
\* twice: every new block gets an id above all the ids given before.
C28_BlockIdsIncrease ==
    [][/\ BlocksInOrder(form', window')
       /\ (/\ form.id \in CreateForms
           /\ form'.id = form.id
           /\ notice'.h \notin {ShowOf(fid) : fid \in CreateForms})
          => /\ window'[counterOf(form.id)] >= window[counterOf(form.id)]
             /\ \A id \in BlockIds(form') \ BlockIds(form) :
                   id > window[counterOf(form.id)]
      ]_vars

\* the first block has been removed and the form still holds two
C28_Witness ==
    /\ form.id = "createQuizForm"
    /\ Len(form.fields.blocks) = 2
    /\ form.fields.blocks[1].id = 2
    /\ form.fields.blocks[2].id = 3
    /\ window["_cqCounter"] = 3

\* C29: when submitCreateQuiz or submitCreateRaffle rejects a question
\* locally, the question number of its message is the number in the header
\* of the rejected block.
C29_MessageNamesBlock ==
    [][\A fid \in CreateForms :
          (Invoked(SubmitOf(fid)) /\ notice'.msg = "toast: question")
          => notice'.n = form.fields.blocks[notice'.n].id]_vars

\* C30: when the PUT of saveQuizQuestion is answered 2xx with a body whose
\* success is falsy, the modal stays open with its fields, an error
\* notification and no success notification is shown, and the detail view
\* is not reloaded; the modal is closed and the detail view reloaded only
\* when success is truthy.
C30_FalsySuccessFails ==
    [][\A k \in DOMAIN ops :
          (/\ Settled(k)
           /\ ops[k].h = "saveQuizQuestion"
           /\ reply'.tag = "resolved"
           /\ reply'.value.kind = "object")
          => IF reply'.value.success
             THEN /\ Loads("quizDetail")
                  /\ form.id = "editQuizQuestionModal" =>
                        /\ form' = NoForm
                        /\ modals'["editQuizQuestionModal"] = 0
             ELSE /\ form' = form
                  /\ modals' = modals
                  /\ calls' = calls
                  /\ content' = content
                  /\ ops'[k].pc = "done"
                  /\ ops'[k].errs = 1
                  /\ ops'[k].oks = 0
      ]_vars

\* the server has answered the edit 2xx without success: the modal is open
\* and the one notification is the error
C30_Witness ==
    /\ reply.tag = "resolved"
    /\ reply.value.kind = "object"
    /\ ~reply.value.success
    /\ Len(ops) = 1
    /\ ops[1].h = "saveQuizQuestion"
    /\ ops[1].pc = "done"
    /\ ops[1].errs = 1
    /\ ops[1].oks = 0
    /\ form.id = "editQuizQuestionModal"
    /\ modals["editQuizQuestionModal"] = 1
    /\ Len(calls) = 1

====
